---------------------------- MODULE Spec2Model ----------------------------
(***************************************************************************)
(* Verification model of the ingestion pipeline of sbv (SMS/MMS backup     *)
(* viewer): phone-number normalisation, record conversion, the streaming   *)
(* parser with its idempotent insert, and the auto-import watcher.         *)
(*                                                                         *)
(* Strings the code inspects character by character (phone numbers, dates, *)
(* integer attributes) are sequences of one-character strings.  Strings    *)
(* the code only copies or compares (bodies, ids) are TLA+ strings.        *)
(***************************************************************************)
EXTENDS Integers, Sequences, FiniteSets, TLC

VARIABLES
    fn,          \* pure-function harness: which function is applied
    fnIn,        \* pure-function harness: its input
    fnOut,       \* pure-function harness: its result
    fnDone,      \* pure-function harness: TRUE once applied
    store,       \* the user's messages table: sequence of rows (index = id)
    run,         \* per parse run: state of ParseSMSBackupStreaming
    progress,    \* the global uploadProgress (exists = FALSE when nil)
    snap,        \* the store when the first run ended before the other one began
    fs,          \* watcher: the ingest / complete directories of one user
    watcher,     \* watcher: position of the scan loop
    wlog,        \* watcher: what the scans did, cycle by cycle
    svc,         \* watcher: the service goroutine, its ticker and its context
    got,         \* the snapshot the last GetUploadProgress returned
    media,       \* media transcoder: build, temporary directory, requests
    lk,          \* progress locks: holders, threads, the copy being filled
    dbs          \* userDBs, the cache of store handles, and the GetUserDB calls

pureVars   == <<fn, fnIn, fnOut, fnDone>>
ingestVars == <<store, run, progress, snap>>
watchVars  == <<fs, watcher, wlog>>
sideVars   == <<svc, got, media, lk, dbs>>
vars       == <<fn, fnIn, fnOut, fnDone, store, run, progress, snap, fs, watcher, wlog, svc, got, media, lk, dbs>>

(***************************************************************************)
(* Bounds of the model.                                                    *)
(***************************************************************************)
MaxDigits  == 12   \* digits in a generated phone-number input
MaxAddrs   == 3    \* <addr> children of a generated MMS entry
MaxEntries == 4    \* entries read by the two concurrent parse runs together
MaxDocLen  == 3    \* entries of the document of a single parse run
MaxCycles  == 2    \* scan cycles of the watcher
MaxDrops   == 1    \* files the user copies into the ingest directory
MaxWrites  == 1    \* later writes of the user to files in the ingest directory
MaxTmp     == 4    \* file names of the temporary directory
MaxCalls   == 2    \* GetUserDB calls of one goroutine
MaxParts   == 3    \* <part> children of a generated MMS entry

(***************************************************************************)
(* Characters and strings as sequences of characters.                      *)
(***************************************************************************)
DigitChars == <<"0", "1", "2", "3", "4", "5", "6", "7", "8", "9">>

IsDigit(ch) == \E i \in 1..10 : DigitChars[i] = ch

DigitVal(ch) == (CHOOSE i \in 1..10 : DigitChars[i] = ch) - 1

\* byte value of the characters that occur in the model (ASCII)
CharCode(ch) ==
    CASE ch = " " -> 32
      [] ch = "(" -> 40
      [] ch = ")" -> 41
      [] ch = "+" -> 43
      [] ch = "," -> 44
      [] ch = "-" -> 45
      [] IsDigit(ch) -> 48 + DigitVal(ch)
      [] OTHER -> 120

\* strings.HasPrefix(s, "+")
HasPlusPrefix(s) == Len(s) > 0 /\ s[1] = "+"

\* the loop of normalizePhoneNumber that keeps the runes '0'..'9'
RECURSIVE KeepDigits(_)
KeepDigits(s) ==
    IF s = <<>> THEN <<>>
    ELSE IF IsDigit(Head(s)) THEN <<Head(s)>> \o KeepDigits(Tail(s))
    ELSE KeepDigits(Tail(s))

\* a plausible slip: the domestic rule adds the country code without the plus
normalizePhoneNumber_barePrefix(phoneNumber) ==
    IF phoneNumber = <<>> THEN <<>>
    ELSE LET hasPlus == HasPlusPrefix(phoneNumber)
             normalized == KeepDigits(phoneNumber)
         IN  IF normalized = <<>> THEN <<>>
             ELSE IF ~hasPlus
                  THEN IF Len(normalized) = 10 THEN <<"1">> \o normalized
                       ELSE IF Len(normalized) = 11 /\ normalized[1] = "1"
                            THEN <<"+">> \o normalized
                            ELSE normalized
                  ELSE <<"+">> \o normalized

\* a plausible slip: the digit-count test of the domestic rule is off by one
normalizePhoneNumber_len9(phoneNumber) ==
    IF phoneNumber = <<>> THEN <<>>
    ELSE LET hasPlus == HasPlusPrefix(phoneNumber)
             normalized == KeepDigits(phoneNumber)
         IN  IF normalized = <<>> THEN <<>>
             ELSE IF ~hasPlus
                  THEN IF Len(normalized) = 9 THEN <<"+", "1">> \o normalized
                       ELSE IF Len(normalized) = 11 /\ normalized[1] = "1"
                            THEN <<"+">> \o normalized
                            ELSE normalized
                  ELSE <<"+">> \o normalized

normalizePhoneNumber(phoneNumber) ==
    IF phoneNumber = <<>> THEN <<>>
    ELSE LET hasPlus == HasPlusPrefix(phoneNumber)
             normalized == KeepDigits(phoneNumber)
         IN  IF normalized = <<>> THEN <<>>
             ELSE IF ~hasPlus
                  THEN IF Len(normalized) = 10 THEN <<"+", "1">> \o normalized
                       ELSE IF Len(normalized) = 11 /\ normalized[1] = "1"
                            THEN <<"+">> \o normalized
                            ELSE normalized
                  ELSE <<"+">> \o normalized

(***************************************************************************)
(* strconv.ParseInt(s, 10, 64) and strconv.Atoi(s).                        *)
(***************************************************************************)
RECURSIVE DigitsValue(_, _)
DigitsValue(s, acc) ==
    IF s = <<>> THEN acc ELSE DigitsValue(Tail(s), acc * 10 + DigitVal(Head(s)))

AllDigits(s) == Len(s) > 0 /\ \A i \in 1..Len(s) : IsDigit(s[i])

\* [ok |-> the syntax is an integer, val |-> its value]
ParseInt(s) ==
    IF s # <<>> /\ Head(s) \in {"+", "-"}
    THEN IF AllDigits(Tail(s))
         THEN [ok |-> TRUE,
               val |-> IF Head(s) = "-" THEN 0 - DigitsValue(Tail(s), 0)
                       ELSE DigitsValue(Tail(s), 0)]
         ELSE [ok |-> FALSE, val |-> 0]
    ELSE IF AllDigits(s) THEN [ok |-> TRUE, val |-> DigitsValue(s, 0)]
         ELSE [ok |-> FALSE, val |-> 0]

\* "x, _ := strconv.Atoi(s)": the error is dropped and x is 0 on error
AtoiOrZero(s) == ParseInt(s).val

\* Go's integer division truncates toward zero
GoDiv(a, b) == IF a >= 0 THEN a \div b ELSE 0 - ((0 - a) \div b)

\* time.Unix(dateMs/1000, 0).Unix()
UnixSeconds(dateMs) == GoDiv(dateMs, 1000)

(***************************************************************************)
(* sort.Strings and strings.Join on character sequences.                   *)
(***************************************************************************)
RECURSIVE StrLess(_, _)
StrLess(a, b) ==
    IF b = <<>> THEN FALSE
    ELSE IF a = <<>> THEN TRUE
    ELSE IF CharCode(Head(a)) < CharCode(Head(b)) THEN TRUE
    ELSE IF CharCode(Head(a)) > CharCode(Head(b)) THEN FALSE
    ELSE StrLess(Tail(a), Tail(b))

SeqRange(s) == {s[i] : i \in 1..Len(s)}

RECURSIVE SortSet(_)
SortSet(S) ==
    IF S = {} THEN <<>>
    ELSE LET m == CHOOSE x \in S : \A y \in S \ {x} : StrLess(x, y)
         IN  <<m>> \o SortSet(S \ {m})

\* a plausible slip: the slice built from the map is used without sorting
SortStrings_unsorted(list) == list

SortStrings(list) == SortSet(SeqRange(list))

RECURSIVE JoinComma(_)
JoinComma(list) ==
    IF list = <<>> THEN <<>>
    ELSE IF Len(list) = 1 THEN list[1]
    ELSE list[1] \o <<",">> \o JoinComma(Tail(list))


(***************************************************************************)
(* Content types and payloads of MMS parts.  The model knows the content   *)
(* types of ContentTypes; the predicates below are the Go predicates       *)
(* (lower-case, trim, prefix / substring tests) evaluated on that set.     *)
(***************************************************************************)
ContentTypes ==
    {"", "application/smil", "text/plain", "text/x-vCard", "image/jpeg",
     "image/heic", "video/3gpp"}

isSMILContentType(ct) == ct \in {"application/smil"}

isVCardContentType(ct) == ct \in {"text/x-vCard"}

isTextContentType(ct) == ct \in {"text/plain", "text/x-vCard"}

\* base64.StdEncoding.DecodeString on the payloads of the model
Base64Decode(data) ==
    CASE data = "aGk=" -> [ok |-> TRUE, bytes |-> "hi"]
      [] data = "eW8=" -> [ok |-> TRUE, bytes |-> "yo"]
      [] data = ""     -> [ok |-> TRUE, bytes |-> ""]
      [] OTHER         -> [ok |-> FALSE, bytes |-> ""]

\* normalizeNullString on a text given as its sequence of words
normalizeNullString(text) == IF text = <<"null">> THEN <<>> ELSE text

(***************************************************************************)
(* The unified record built by the converters (Message / CallLog).         *)
(* Body is a sequence of words (joined by single spaces in the code).      *)
(***************************************************************************)
NoRecord == [ok |-> FALSE]

Message(address, body, type, date, read, contentType, messageID, sender, addresses, mediaType, mediaData) ==
    [kind |-> "message", Address |-> address, Body |-> body, Type |-> type,
     Date |-> date, Read |-> read, ContentType |-> contentType,
     MessageID |-> messageID, Sender |-> sender, Addresses |-> addresses,
     MediaType |-> mediaType, MediaData |-> mediaData, Duration |-> 0]

CallLog(number, duration, date, type) ==
    [kind |-> "call", Address |-> number, Body |-> <<>>, Type |-> type,
     Date |-> date, Read |-> FALSE, ContentType |-> "", MessageID |-> "",
     Sender |-> <<>>, Addresses |-> <<>>, MediaType |-> "", MediaData |-> "",
     Duration |-> duration]

\* a plausible slip: the error of the type conversion aborts the entry too
convertSMSEntry_strictType(sms) ==
    LET date == ParseInt(sms.date) IN
    IF ~date.ok \/ ~ParseInt(sms.type).ok THEN [ok |-> FALSE, rec |-> NoRecord]
    ELSE LET msgType == AtoiOrZero(sms.type)
             normalizedAddress == normalizePhoneNumber(sms.address)
         IN  [ok |-> TRUE,
              rec |-> Message(normalizedAddress, sms.body, msgType,
                              UnixSeconds(date.val), sms.read = "1", "", "",
                              IF msgType = 1 THEN normalizedAddress ELSE <<>>,
                              IF normalizedAddress # <<>>
                              THEN <<normalizedAddress>> ELSE <<>>,
                              "", "")]

\* a plausible slip: an unparsable date is taken as 0 instead of an error
convertSMSEntry_dateZero(sms) ==
    LET date == ParseInt(sms.date)
        msgType == AtoiOrZero(sms.type)
        normalizedAddress == normalizePhoneNumber(sms.address)
    IN  [ok |-> TRUE,
         rec |-> Message(normalizedAddress, sms.body, msgType,
                         UnixSeconds(date.val), sms.read = "1", "", "",
                         IF msgType = 1 THEN normalizedAddress ELSE <<>>,
                         IF normalizedAddress # <<>>
                         THEN <<normalizedAddress>> ELSE <<>>,
                         "", "")]

convertSMSEntry(sms) ==
    LET date == ParseInt(sms.date) IN
    IF ~date.ok THEN [ok |-> FALSE, rec |-> NoRecord]
    ELSE LET msgType == AtoiOrZero(sms.type)
             normalizedAddress == normalizePhoneNumber(sms.address)
         IN  [ok |-> TRUE,
              rec |-> Message(normalizedAddress, sms.body, msgType,
                              UnixSeconds(date.val), sms.read = "1", "", "",
                              IF msgType = 1 THEN normalizedAddress ELSE <<>>,
                              IF normalizedAddress # <<>>
                              THEN <<normalizedAddress>> ELSE <<>>,
                              "", "")]

convertCallEntry(call) ==
    LET date == ParseInt(call.date) IN
    IF ~date.ok THEN [ok |-> FALSE, rec |-> NoRecord]
    ELSE [ok |-> TRUE,
          rec |-> CallLog(normalizePhoneNumber(call.number),
                          AtoiOrZero(call.duration), UnixSeconds(date.val),
                          AtoiOrZero(call.type))]

(***************************************************************************)
(* convertMMSEntry: the address loop.                                      *)
(***************************************************************************)
\* the normalised <addr> addresses that are not empty, in document order
RECURSIVE NormalizedAddrs(_)
NormalizedAddrs(addrs) ==
    IF addrs = <<>> THEN <<>>
    ELSE LET n == normalizePhoneNumber(Head(addrs).address) IN
         (IF n # <<>> THEN <<[address |-> n, type |-> Head(addrs).type]>> ELSE <<>>)
            \o NormalizedAddrs(Tail(addrs))

\* the keys of addressMap, each once (one of the orders a Go map can give)
RECURSIVE MapKeys(_, _)
MapKeys(naddrs, seen) ==
    IF naddrs = <<>> THEN <<>>
    ELSE IF Head(naddrs).address \in seen THEN MapKeys(Tail(naddrs), seen)
    ELSE <<Head(naddrs).address>>
            \o MapKeys(Tail(naddrs), seen \cup {Head(naddrs).address})

\* senderAddress after the loop: the last address whose type is 137
RECURSIVE LastFrom(_, _)
LastFrom(naddrs, acc) ==
    IF naddrs = <<>> THEN acc
    ELSE LastFrom(Tail(naddrs),
                  IF AtoiOrZero(Head(naddrs).type) = 137
                  THEN Head(naddrs).address ELSE acc)

\* a plausible slip: the direction of the message is not looked at
MMSSender_anyDirection(msgType, naddrs) ==
    LET firstAddress == IF naddrs = <<>> THEN <<>> ELSE naddrs[1].address
        explicit == LastFrom(naddrs, <<>>)
    IN  IF explicit # <<>> THEN explicit ELSE firstAddress

MMSSender(msgType, naddrs) ==
    LET firstAddress == IF naddrs = <<>> THEN <<>> ELSE naddrs[1].address
        explicit == LastFrom(naddrs, <<>>)
        n == Len(MapKeys(naddrs, {}))
        senderAddress ==
            IF msgType = 1 /\ explicit = <<>>
            THEN IF n = 1 /\ firstAddress # <<>> THEN firstAddress
                 ELSE IF n > 1 /\ firstAddress # <<>> THEN firstAddress
                 ELSE explicit
            ELSE explicit
    IN  IF msgType = 1 /\ senderAddress # <<>> THEN senderAddress ELSE <<>>

MMSPrimaryAddress(addresses, normalizedAddress) ==
    IF Len(addresses) >= 3 THEN JoinComma(addresses)
    ELSE normalizedAddress

(***************************************************************************)
(* convertMMSEntry: the parts loop.  acc = [mt, md, body].                 *)
(***************************************************************************)
\* a plausible slip: a later attachment replaces the one kept so far
PartStep_lastWins(acc, part) ==
    IF isSMILContentType(part.ct) THEN acc
    ELSE IF isVCardContentType(part.ct) /\ part.data # ""
    THEN IF Base64Decode(part.data).ok
         THEN [acc EXCEPT !.mt = part.ct, !.md = Base64Decode(part.data).bytes]
         ELSE acc
    ELSE IF part.ct # "" /\ part.data # "" /\ ~isTextContentType(part.ct)
    THEN IF Base64Decode(part.data).ok
         THEN [acc EXCEPT !.mt = part.ct, !.md = Base64Decode(part.data).bytes]
         ELSE acc
    ELSE IF part.text # <<>> /\ normalizeNullString(part.text) # <<>>
    THEN [acc EXCEPT !.body = acc.body \o part.text]
    ELSE acc

\* one round of the loop over mms.Parts, lines 298-331
PartStep(acc, part) ==
    IF isSMILContentType(part.ct) THEN acc
    ELSE IF isVCardContentType(part.ct) /\ part.data # ""
    THEN IF acc.mt = "" /\ Base64Decode(part.data).ok
         THEN [acc EXCEPT !.mt = part.ct, !.md = Base64Decode(part.data).bytes]
         ELSE acc
    ELSE IF part.ct # "" /\ part.data # "" /\ ~isTextContentType(part.ct)
    THEN IF acc.mt = "" /\ Base64Decode(part.data).ok
         THEN [acc EXCEPT !.mt = part.ct, !.md = Base64Decode(part.data).bytes]
         ELSE acc
    ELSE IF part.text # <<>> /\ normalizeNullString(part.text) # <<>>
    THEN [acc EXCEPT !.body = acc.body \o part.text]
    ELSE acc

RECURSIVE PartsLoop(_, _)
PartsLoop(parts, acc) ==
    IF parts = <<>> THEN acc ELSE PartsLoop(Tail(parts), PartStep(acc, Head(parts)))

convertMMSEntry(mms) ==
    LET date == ParseInt(mms.date) IN
    IF ~date.ok THEN [ok |-> FALSE, rec |-> NoRecord]
    ELSE LET msgType == AtoiOrZero(mms.type)
             normalizedAddress == normalizePhoneNumber(mms.address)
             naddrs == NormalizedAddrs(mms.addrs)
             addresses == SortStrings(MapKeys(naddrs, {}))
             p == PartsLoop(mms.parts, [mt |-> "", md |-> "", body |-> <<>>])
         IN  [ok |-> TRUE,
              rec |-> Message(MMSPrimaryAddress(addresses, normalizedAddress),
                              p.body, msgType, UnixSeconds(date.val),
                              mms.read = "1", mms.ct_t, mms.m_id,
                              MMSSender(msgType, naddrs), addresses,
                              p.mt, p.md)]

\* the converted entries of a list, the ones that fail left out
RECURSIVE ConvertAll(_)
ConvertAll(entries) ==
    IF entries = <<>> THEN <<>>
    ELSE LET conv == CASE Head(entries).tag = "sms"  -> convertSMSEntry(Head(entries))
                       [] Head(entries).tag = "mms"  -> convertMMSEntry(Head(entries))
                       [] Head(entries).tag = "call" -> convertCallEntry(Head(entries))
         IN  (IF conv.ok THEN <<conv.rec>> ELSE <<>>) \o ConvertAll(Tail(entries))

\* ParseSMSBackup on a well-formed document: sms, then mms, then calls
ParseSMSBackup(doc) ==
    [err |-> FALSE,
     Messages |-> ConvertAll(SelectSeq(doc, LAMBDA e : e.tag = "sms"))
                    \o ConvertAll(SelectSeq(doc, LAMBDA e : e.tag = "mms")),
     Calls |-> ConvertAll(SelectSeq(doc, LAMBDA e : e.tag = "call"))]

\* the converter the parser picks for the element name
convertEntry(e) ==
    CASE e.tag = "sms"  -> convertSMSEntry(e)
      [] e.tag = "mms"  -> convertMMSEntry(e)
      [] e.tag = "call" -> convertCallEntry(e)

(***************************************************************************)
(* The messages table and its unique index idx_message_unique.             *)
(* A nullable column holds <<>> for NULL and <<v>> for the value v.        *)
(***************************************************************************)
Coalesce(col, default) == IF col = <<>> THEN default ELSE col[1]

\* the column values InsertMessage binds for a converted message
MessageRow(msg) ==
    [record_type |-> IF msg.ContentType # "" THEN 2 ELSE 1,
     address |-> msg.Address, body |-> <<msg.Body>>, type |-> msg.Type,
     date |-> msg.Date, read |-> msg.Read, media_type |-> msg.MediaType,
     media_data |-> msg.MediaData, sender |-> msg.Sender,
     content_type |-> <<msg.ContentType>>, message_id |-> <<msg.MessageID>>,
     addresses |-> JoinComma(msg.Addresses), duration |-> <<>>]

\* the column values InsertCallLog binds for a converted call
CallRow(call) ==
    [record_type |-> 3,
     address |-> call.Address, body |-> <<>>, type |-> call.Type,
     date |-> call.Date, read |-> FALSE, media_type |-> "",
     media_data |-> "", sender |-> <<>>,
     content_type |-> <<>>, message_id |-> <<>>,
     addresses |-> <<>>, duration |-> <<call.Duration>>]

RowOf(rec) == IF rec.kind = "call" THEN CallRow(rec) ELSE MessageRow(rec)

\* a plausible slip: the unique index also lists the read flag
UniqueKey_withRead(row) ==
    <<row.record_type, row.address, row.date, row.type,
      Coalesce(row.body, <<>>), Coalesce(row.content_type, ""),
      Coalesce(row.message_id, ""), Coalesce(row.duration, 0), row.read>>

\* the expression list of idx_message_unique
UniqueKey(row) ==
    <<row.record_type, row.address, row.date, row.type,
      Coalesce(row.body, <<>>), Coalesce(row.content_type, ""),
      Coalesce(row.message_id, ""), Coalesce(row.duration, 0)>>

Conflicts(table, row) ==
    \E i \in 1..Len(table) : UniqueKey(table[i]) = UniqueKey(row)

\* a plausible slip: a plain INSERT on a table without the unique index
InsertRow_noConflictClause(table, row) == Append(table, row)

\* a plausible slip: INSERT OR REPLACE, the later row wins
InsertRow_replace(table, row) ==
    IF Conflicts(table, row)
    THEN [i \in 1..Len(table) |->
            IF UniqueKey(table[i]) = UniqueKey(row) THEN row ELSE table[i]]
    ELSE Append(table, row)

\* INSERT ... ON CONFLICT DO NOTHING
InsertRow(table, row) ==
    IF Conflicts(table, row) THEN table ELSE Append(table, row)

(***************************************************************************)
(* The entries a backup document of the model is made of.                  *)
(***************************************************************************)
AddrDashed == <<"5", "5", "5", "-", "1", "2", "3", "-", "4", "5", "6", "7">>   \* "555-123-4567"
AddrPlus   == <<"+", "1", "5", "5", "5", "1", "2", "3", "4", "5", "6", "7">>   \* "+15551234567"
AddrShort  == <<"3", "3", "2">>   \* "332"
AddrIntl   == <<"+", "4", "4", "2", "0", "7", "9", "4", "6", "0", "9", "5", "8">>   \* "+442079460958"
AddrWords  == <<"a", "b", "c">>   \* "abc", no digit at all

RelatedCT == "application/vnd.wap.multipart.related"

SMSEntry(address, date, type, body, read) ==
    [tag |-> "sms", address |-> address, date |-> date, type |-> type,
     body |-> body, read |-> read]

MMSEntry(address, date, type, read, ct_t, m_id, addrs, parts) ==
    [tag |-> "mms", address |-> address, date |-> date, type |-> type,
     read |-> read, ct_t |-> ct_t, m_id |-> m_id, addrs |-> addrs,
     parts |-> parts]

CallEntry(number, date, type, duration) ==
    [tag |-> "call", number |-> number, date |-> date, type |-> type,
     duration |-> duration]

MMSAddr(address, type) == [address |-> address, type |-> type]

MMSPart(ct, text, data) == [ct |-> ct, text |-> text, data |-> data]

TextPart == MMSPart("text/plain", <<"hi">>, "")
SmilPart == MMSPart("application/smil", <<"smil">>, "")
JpegPart == MMSPart("image/jpeg", <<"null">>, "aGk=")

\* the same message in two spellings of the number; they differ in "read"
smsA  == SMSEntry(AddrDashed, <<"1", "0", "0", "0">>, <<"1">>, <<"hi">>, "0")
smsA2 == SMSEntry(AddrPlus, <<"1", "0", "0", "0">>, <<"1">>, <<"hi">>, "1")
\* date="1x"
smsBadDate == SMSEntry(AddrShort, <<"1", "x">>, <<"2">>, <<"yo">>, "1")
\* type="x" with a good date
smsBadType == SMSEntry(AddrShort, <<"2", "5", "0", "0">>, <<"x">>, <<"yo">>, "1")
\* a group MMS of three participants, listed unsorted
mmsG ==
    MMSEntry(AddrShort, <<"3", "0", "0", "0">>, <<"1">>, "1", RelatedCT, "m1",
             <<MMSAddr(AddrShort, <<"1", "5", "1">>), MMSAddr(AddrIntl, <<"1", "3", "7">>),
               MMSAddr(AddrDashed, <<"1", "5", "1">>)>>,
             <<SmilPart, TextPart, JpegPart>>)
\* an MMS whose ct_t attribute is empty, with the content of smsA
mmsNoCt ==
    MMSEntry(AddrPlus, <<"1", "0", "0", "0">>, <<"1">>, "0", "", "",
             <<MMSAddr(AddrPlus, <<"1", "3", "7">>)>>, <<TextPart>>)
\* date=""
mmsBadDate ==
    MMSEntry(AddrShort, <<>>, <<"1">>, "1", RelatedCT, "m2",
             <<MMSAddr(AddrShort, <<"1", "3", "7">>)>>, <<TextPart>>)
callC == CallEntry(AddrDashed, <<"1", "9", "9", "9">>, <<"1">>, <<"3", "0">>)
\* date="x"
callBadDate == CallEntry(AddrDashed, <<"x">>, <<"1">>, <<"3", "0">>)
\* type="x" and duration="3s" with a good date
callBadNum == CallEntry(AddrShort, <<"4", "0", "0", "0">>, <<"x">>, <<"3", "s">>)

\* the entries of the documents of a single parse run
Pool ==
    {smsA, smsA2, smsBadDate, smsBadType, mmsG, mmsNoCt, mmsBadDate,
     callC, callBadDate, callBadNum}

\* the entries of the documents of two concurrent parse runs
RacePool == {smsA, smsA2, smsBadDate, callC}

\* the count attribute of the root element: absent, or "2"
DeclaredCounts == {<<>>, <<<<"2">>>>}

(***************************************************************************)
(* UploadProgress, the package-level progress of the running upload.       *)
(***************************************************************************)
NoProgress ==
    [exists |-> FALSE, Status |-> "", TotalMessages |-> 0,
     ProcessedMessages |-> 0, TotalCalls |-> 0, ProcessedCalls |-> 0,
     ErrorMessage |-> ""]

NewProgress == [NoProgress EXCEPT !.exists = TRUE, !.Status = "parsing"]

SetUploadProgress(p, total, processed, status) ==
    [(IF p.exists THEN p ELSE [NoProgress EXCEPT !.exists = TRUE])
        EXCEPT !.TotalMessages = total, !.ProcessedMessages = processed,
               !.Status = status]

UpdateMessageProgress(p, processed) ==
    IF ~p.exists THEN p ELSE [p EXCEPT !.ProcessedMessages = processed]

(***************************************************************************)
(* Parse runs: ParseSMSBackupStreaming called by ProcessUploadedFile (the  *)
(* interactive upload) and by parseXMLBackup (the auto-import scan), both  *)
(* on the store of the same user.  The document is read token by token;    *)
(* run[r].seen is the sequence of entries read so far.  The insert         *)
(* statement itself is taken to execute (no store error).                  *)
(***************************************************************************)
Runs == {"upload", "auto"}

IdleRun ==
    [pc |-> "idle", root |-> FALSE, seen |-> <<>>, messageCount |-> 0,
     callCount |-> 0]

NoSnap == [set |-> FALSE, table |-> <<>>]

EntriesRead == Len(run["upload"].seen) + Len(run["auto"].seen)

InitIngestVars ==
    /\ store = <<>>
    /\ run = [r \in Runs |-> IdleRun]
    /\ progress = NoProgress
    /\ snap = NoSnap

\* lines 733-739: the run replaces the global progress
Begin(r) ==
    /\ run[r].pc = "idle"
    /\ run' = [run EXCEPT ![r].pc = "parsing"]
    /\ progress' = NewProgress
    /\ UNCHANGED <<store, snap>>

\* lines 760-772: the root element, with or without a count attribute
ReadRoot(r, counts) ==
    /\ run[r].pc = "parsing"
    /\ ~run[r].root
    /\ \E count \in counts :
         progress' = IF count = <<>> THEN progress
                     ELSE [progress EXCEPT !.TotalMessages = AtoiOrZero(count[1])]
    /\ run' = [run EXCEPT ![r].root = TRUE]
    /\ UNCHANGED <<store, snap>>

\* a plausible slip: only an insert that created a row is counted
ReadEntry_newRowsOnly(r, pool, limit) ==
    /\ run[r].pc = "parsing"
    /\ run[r].root
    /\ EntriesRead < limit
    /\ \E e \in pool :
         LET conv == convertEntry(e) IN
         IF ~conv.ok \/ Conflicts(store, RowOf(conv.rec))
         THEN /\ run' = [run EXCEPT ![r].seen = Append(@, e)]
              /\ UNCHANGED <<store, progress>>
         ELSE /\ store' = InsertRow(store, RowOf(conv.rec))
              /\ IF e.tag = "call"
                 THEN /\ run' = [run EXCEPT ![r].seen = Append(@, e),
                                            ![r].callCount = @ + 1]
                      /\ progress' =
                           [progress EXCEPT !.TotalCalls = @ + 1,
                                            !.ProcessedCalls = run[r].callCount + 1]
                 ELSE /\ run' = [run EXCEPT ![r].seen = Append(@, e),
                                            ![r].messageCount = @ + 1]
                      /\ progress' =
                           UpdateMessageProgress(progress, run[r].messageCount + 1)
    /\ UNCHANGED snap

\* lines 775-871: one sms, mms or call element: decode, convert, insert
ReadEntry(r, pool, limit) ==
    /\ run[r].pc = "parsing"
    /\ run[r].root
    /\ EntriesRead < limit
    /\ \E e \in pool :
         LET conv == convertEntry(e) IN
         IF ~conv.ok
         THEN /\ run' = [run EXCEPT ![r].seen = Append(@, e)]
              /\ UNCHANGED <<store, progress>>
         ELSE /\ store' = InsertRow(store, RowOf(conv.rec))
              /\ IF e.tag = "call"
                 THEN /\ run' = [run EXCEPT ![r].seen = Append(@, e),
                                            ![r].callCount = @ + 1]
                      /\ progress' =
                           [progress EXCEPT !.TotalCalls = @ + 1,
                                            !.ProcessedCalls = run[r].callCount + 1]
                 ELSE /\ run' = [run EXCEPT ![r].seen = Append(@, e),
                                            ![r].messageCount = @ + 1]
                      /\ progress' =
                           UpdateMessageProgress(progress, run[r].messageCount + 1)
    /\ UNCHANGED snap

TakeSnap(r) ==
    IF ~snap.set /\ \A q \in Runs \ {r} : run[q].pc = "idle"
    THEN [set |-> TRUE, table |-> store]
    ELSE snap

\* a plausible slip: the failed run is undone
StreamError_rollback(r) ==
    /\ run[r].pc = "parsing"
    /\ run' = [run EXCEPT ![r].pc = "failed"]
    /\ progress' = SetUploadProgress(progress, 0, 0, "error")
    /\ snap' = TakeSnap(r)
    /\ store' = <<>>

\* lines 753-756: decoder.Token fails with a syntax error
StreamError(r) ==
    /\ run[r].pc = "parsing"
    /\ run' = [run EXCEPT ![r].pc = "failed"]
    /\ progress' = SetUploadProgress(progress, 0, 0, "error")
    /\ snap' = TakeSnap(r)
    /\ UNCHANGED store

\* lines 750-752 and 875-881: io.EOF ends the loop
EndOfStream(r) ==
    /\ run[r].pc = "parsing"
    /\ run' = [run EXCEPT ![r].pc = "done"]
    /\ progress' = SetUploadProgress(progress, run[r].messageCount,
                                     run[r].messageCount, "completed")
    /\ snap' = TakeSnap(r)
    /\ UNCHANGED store

(***************************************************************************)
(* The auto-import watcher (autoimport.go) on the ingest directory of one  *)
(* user.  The directory is taken to exist.  A file name is the sequence of *)
(* its parts, <<"a", ".xml">> for a.xml; a leading "." part is the dot of  *)
(* a hidden file.  File contents live in fs.files under an id, names in    *)
(* fs.ingest point at ids (0: no such name), so that an open handle keeps  *)
(* its file when the name is removed.                                      *)
(***************************************************************************)
NameA == <<"a", ".xml">>
NameN == <<"n", ".txt">>

\* os.ReadDir returns the entries sorted by file name
Listing == <<NameA, NameN>>

FileNames == SeqRange(Listing)

\* the document a backup file holds once it is written completely
WatchDoc == <<smsA, callC>>

\* the count attribute of its root element
WatchCount == <<<<"2">>>>

FileIds == 1..MaxDrops

NoFile == [len |-> 0, closed |-> FALSE, mod |-> 0, born |-> 0]

NoLog == [present |-> FALSE, lines |-> <<>>]

\* os.FileInfo: Size() and ModTime(), or the error of os.Stat
StatErr == [ok |-> FALSE, size |-> 0, mod |-> 0]

FileSize(f) == f.len + (IF f.closed THEN 1 ELSE 0)

Stat(fsys, name) ==
    IF fsys.ingest[name] = 0 THEN StatErr
    ELSE LET f == fsys.files[fsys.ingest[name]]
         IN  [ok |-> TRUE, size |-> FileSize(f), mod |-> f.mod]

\* a plausible slip: only the size is compared
isFileStable_sizeOnly(info1, info2) ==
    info1.ok /\ info2.ok /\ info1.size = info2.size

\* isFileStable: both stats succeed, size and modification time are equal
isFileStable(info1, info2) ==
    /\ info1.ok
    /\ info2.ok
    /\ info1.size = info2.size
    /\ info1.mod = info2.mod

\* scanUserDirectory: hidden files and log files are passed over
IsHidden(name) == name[1] = "."

IsLogName(name) == name[Len(name)] = ".log"

ToLower(part) == IF part = ".XML" THEN ".xml" ELSE part

IsXMLName(name) == ToLower(name[Len(name)]) = ".xml"

\* a plausible slip: a file that already has a log is passed over
ScanList_skipLogged(fsys) ==
    SelectSeq(Listing, LAMBDA n : /\ fsys.ingest[n] # 0
                                  /\ ~IsHidden(n)
                                  /\ ~IsLogName(n)
                                  /\ ~fsys.logs[n].present)

ScanList(fsys) ==
    SelectSeq(Listing, LAMBDA n : /\ fsys.ingest[n] # 0
                                  /\ ~IsHidden(n)
                                  /\ ~IsLogName(n))

IdleWatcher ==
    [pc |-> "idle", cycle |-> 0, queue |-> <<>>, cur |-> NameA,
     info1 |-> StatErr, h |-> 0]

\* wlog, the record of what the scans did: in which cycle the two samples
\* of a file differed ("unstable"), its log was created ("log"), the parser
\* was started on it ("parse") and failed ("parseErr"), it was moved ("move")
Event(kind, name, id) ==
    [kind |-> kind, cycle |-> watcher.cycle, name |-> name, id |-> id]

SamplesDiffer(info1, info2) ==
    ~info1.ok \/ ~info2.ok \/ info1.size # info2.size \/ info1.mod # info2.mod

\* modification times come from a clock that every write advances
Clock(fsys) == fsys.drops + fsys.writes

InitWatchVars ==
    /\ fs = [files |-> [i \in FileIds |-> NoFile],
             ingest |-> [n \in FileNames |-> 0],
             logs |-> [n \in FileNames |-> NoLog],
             complete |-> {}, completeLogs |-> {},
             drops |-> 0, writes |-> 0]
    /\ watcher = IdleWatcher
    /\ wlog = {}

(* The user: copies a file into the ingest directory, goes on writing it,  *)
(* rewrites it in place, or removes it.                                    *)
Drop(name) ==
    /\ fs.ingest[name] = 0
    /\ fs.drops < MaxDrops
    /\ \E whole \in BOOLEAN :
         LET len == IF whole THEN Len(WatchDoc) ELSE 1
             closed == whole
         IN
         fs' = [fs EXCEPT !.drops = @ + 1,
                          !.ingest[name] = fs.drops + 1,
                          !.files[fs.drops + 1] =
                              [len |-> len, closed |-> closed,
                               mod |-> Clock(fs) + 1, born |-> Clock(fs) + 1]]
    /\ UNCHANGED <<watcher, wlog, ingestVars>>

Write(name) ==
    /\ fs.ingest[name] # 0
    /\ fs.writes < MaxWrites
    /\ LET id == fs.ingest[name]
           f == fs.files[id]
       IN  /\ ~f.closed
           /\ \/ /\ f.len < Len(WatchDoc)
                 /\ fs' = [fs EXCEPT !.writes = @ + 1,
                                     !.files[id].len = @ + 1,
                                     !.files[id].mod = Clock(fs) + 1]
              \/ /\ f.len = Len(WatchDoc)
                 /\ fs' = [fs EXCEPT !.writes = @ + 1,
                                     !.files[id].closed = TRUE,
                                     !.files[id].mod = Clock(fs) + 1]
    /\ UNCHANGED <<watcher, wlog, ingestVars>>

Touch(name) ==
    /\ fs.ingest[name] # 0
    /\ fs.writes < MaxWrites
    /\ fs' = [fs EXCEPT !.writes = @ + 1,
                        !.files[fs.ingest[name]].mod = Clock(fs) + 1]
    /\ UNCHANGED <<watcher, wlog, ingestVars>>

Remove(name) ==
    /\ fs.ingest[name] # 0
    /\ fs' = [fs EXCEPT !.ingest[name] = 0]
    /\ UNCHANGED <<watcher, wlog, ingestVars>>

(* The watcher.  One scan cycle reads the directory once and handles the   *)
(* listed files in turn; processFile is cut where it waits: at the sleep   *)
(* of isFileStable and while the parser reads the document.  os.Create of  *)
(* the log and the fetch of the user's store may fail; MkdirAll of the     *)
(* complete directory and the rename of the log are taken to succeed.      *)

\* lines 39, 47-48, 64-98: a scan starts with the listing of the directory
StartCycle ==
    /\ watcher.pc = "idle"
    /\ watcher.cycle < MaxCycles
    /\ watcher' = [watcher EXCEPT !.pc = "scan", !.cycle = @ + 1,
                                  !.queue = ScanList(fs)]
    /\ UNCHANGED <<fs, wlog, ingestVars>>

\* lines 100-118, 125, 227-233: the next listed file, and its first stat
Stat1 ==
    /\ watcher.pc = "scan"
    /\ watcher.queue # <<>>
    /\ LET name == Head(watcher.queue)
           info1 == Stat(fs, name)
       IN  IF info1.ok
           THEN /\ watcher' = [watcher EXCEPT !.pc = "sleep", !.cur = name,
                                   !.queue = Tail(@), !.info1 = info1]
                /\ UNCHANGED wlog
           ELSE /\ watcher' = [watcher EXCEPT !.queue = Tail(@)]
                /\ wlog' = wlog \cup {Event("unstable", name, 0)}
    /\ UNCHANGED <<fs, ingestVars>>

\* lines 236-247, 125-128: the second stat after the sleep, and the verdict
Stat2 ==
    /\ watcher.pc = "sleep"
    /\ LET info2 == Stat(fs, watcher.cur)
       IN  /\ wlog' = IF SamplesDiffer(watcher.info1, info2)
                      THEN wlog \cup {Event("unstable", watcher.cur, 0)}
                      ELSE wlog
           /\ watcher' = IF isFileStable(watcher.info1, info2)
                         THEN [watcher EXCEPT !.pc = "stable", !.info1 = StatErr]
                         ELSE [watcher EXCEPT !.pc = "scan", !.info1 = StatErr,
                                              !.cur = NameA]
    /\ UNCHANGED <<fs, ingestVars>>

\* importLogger.log: one more line in the log of the file
AppendLines(fsys, name, lines) ==
    [fsys EXCEPT !.logs[name].lines = @ \o lines]

\* os.Create: a new, empty log under the name of the file plus ".log"
CreateLog(fsys, name) ==
    [fsys EXCEPT !.logs[name] = [present |-> TRUE, lines |-> <<>>]]

\* lines 130-175 and 252-266: the log is created, the user's store is
\* fetched, the file type is told, the file is opened and the parser starts
OpenImport ==
    /\ watcher.pc = "stable"
    /\ \E createOK \in BOOLEAN, userOK \in BOOLEAN :
         LET name == watcher.cur
             fs1 == AppendLines(CreateLog(fs, name), name, <<"Starting import">>)
             logged == Event("log", name, 0)
         IN  IF ~createOK
             THEN /\ watcher' = [watcher EXCEPT !.pc = "scan", !.cur = NameA]
                  /\ UNCHANGED <<fs, wlog, ingestVars>>
             ELSE IF ~userOK
             THEN /\ fs' = AppendLines(fs1, name,
                            <<"ERROR: Failed to get user database">>)
                  /\ wlog' = wlog \cup {logged}
                  /\ watcher' = [watcher EXCEPT !.pc = "scan", !.cur = NameA]
                  /\ UNCHANGED ingestVars
             ELSE IF ~IsXMLName(name)
             THEN /\ fs' = AppendLines(fs1, name,
                            <<"ERROR: Unsupported file type">>)
                  /\ wlog' = wlog \cup {logged}
                  /\ watcher' = [watcher EXCEPT !.pc = "scan", !.cur = NameA]
                  /\ UNCHANGED ingestVars
             ELSE IF fs.ingest[name] = 0
             THEN /\ fs' = AppendLines(fs1, name,
                            <<"Detected XML backup file",
                              "Parsing XML backup file">>)
                  /\ wlog' = wlog \cup {logged}
                  /\ watcher' = [watcher EXCEPT !.pc = "parsed", !.h = 0]
                  /\ UNCHANGED ingestVars
             ELSE /\ fs' = AppendLines(fs1, name,
                            <<"Detected XML backup file",
                              "Parsing XML backup file", "File size">>)
                  /\ wlog' = wlog \cup
                       {logged, Event("parse", name, fs.ingest[name])}
                  /\ watcher' = [watcher EXCEPT !.pc = "parsing",
                                                !.h = fs.ingest[name]]
                  /\ Begin("auto")

\* the parser reads what the opened file holds: the entries written so
\* far, then the end of the document or, in a file that stops short, an
\* unexpected end of input
WatchReadRoot ==
    /\ watcher.pc = "parsing"
    /\ ReadRoot("auto", {WatchCount})
    /\ UNCHANGED watchVars

WatchReadEntry ==
    /\ watcher.pc = "parsing"
    /\ Len(run["auto"].seen) < fs.files[watcher.h].len
    /\ ReadEntry("auto", {WatchDoc[Len(run["auto"].seen) + 1]},
                 fs.files[watcher.h].len)
    /\ UNCHANGED watchVars

WatchStreamError ==
    /\ watcher.pc = "parsing"
    /\ run["auto"].root
    /\ Len(run["auto"].seen) = fs.files[watcher.h].len
    /\ ~fs.files[watcher.h].closed
    /\ StreamError("auto")
    /\ UNCHANGED watchVars

WatchEndOfStream ==
    /\ watcher.pc = "parsing"
    /\ run["auto"].root
    /\ Len(run["auto"].seen) = fs.files[watcher.h].len
    /\ fs.files[watcher.h].closed
    /\ EndOfStream("auto")
    /\ UNCHANGED watchVars

\* a plausible slip: the path in the ingest directory is tested
CompleteStamp_ingestPath(fsys, name, now) ==
    IF fsys.ingest[name] = 0 THEN now ELSE 0

\* lines 186-194: the name in the complete directory, with the time of
\* the move (here: the scan cycle) when the plain name is taken
CompleteStamp(fsys, name, now) ==
    IF \E c \in fsys.complete : c.name = name /\ c.stamp = 0 THEN now ELSE 0

\* a plausible slip: the file is copied, not moved
MoveFile_copy(fsys, name, stamp) ==
    [fsys EXCEPT !.complete =
        {c \in @ : ~(c.name = name /\ c.stamp = stamp)}
        \cup {[name |-> name, stamp |-> stamp, id |-> fsys.ingest[name]]}]

\* line 205: os.Rename of the file into the complete directory
MoveFile(fsys, name, stamp) ==
    [fsys EXCEPT !.ingest[name] = 0,
                 !.complete =
        {c \in @ : ~(c.name = name /\ c.stamp = stamp)}
        \cup {[name |-> name, stamp |-> stamp, id |-> fsys.ingest[name]]}]

\* lines 212-216: the log is closed and renamed next to the file
MoveLog(fsys, name, stamp) ==
    [fsys EXCEPT !.logs[name] = NoLog,
                 !.completeLogs =
        {c \in @ : ~(c.name = name /\ c.stamp = stamp)}
        \cup {[name |-> name, stamp |-> stamp, lines |-> fsys.logs[name].lines]}]

\* lines 267-275 and 177-221: the parser has returned; on an error the
\* file stays, otherwise file and log are moved; the two lines written
\* after the log was closed are lost
FinishImport ==
    /\ \/ watcher.pc = "parsed"
       \/ watcher.pc = "parsing" /\ run["auto"].pc \in {"done", "failed"}
    /\ LET name == watcher.cur
           parseErr == watcher.pc = "parsed" \/ run["auto"].pc = "failed"
           stamp == CompleteStamp(fs, name, watcher.cycle)
           failed == Event("parseErr", name, watcher.h)
           stats == <<"Import statistics", "Total processed", "Total skipped">>
       IN  IF parseErr
           THEN /\ fs' = AppendLines(fs, name,
                            <<"ERROR: Import failed",
                              "File will remain in ingest directory",
                              "Import duration">>)
                /\ wlog' = wlog \cup {failed}
           ELSE IF fs.ingest[name] = 0
           THEN /\ fs' = AppendLines(fs, name,
                            stats \o <<"ERROR: Failed to move file">>)
                /\ UNCHANGED wlog
           ELSE /\ fs' = MoveLog(MoveFile(AppendLines(fs, name, stats),
                                          name, stamp), name, stamp)
                /\ wlog' = wlog \cup {Event("move", name, fs.ingest[name])}
    /\ watcher' = [watcher EXCEPT !.pc = "scan", !.h = 0, !.cur = NameA]
    /\ run' = [run EXCEPT !["auto"] = IdleRun]
    /\ UNCHANGED <<store, progress, snap>>

\* line 119: the listing is exhausted, the scan waits for the next tick
EndCycle ==
    /\ watcher.pc = "scan"
    /\ watcher.queue = <<>>
    /\ watcher' = [watcher EXCEPT !.pc = "idle"]
    /\ UNCHANGED <<fs, wlog, ingestVars>>


(***************************************************************************)
(* The service goroutine of Start (autoimport.go 34-55) and Stop.  The     *)
(* goroutine scans once, then waits in a select on the ticker channel and  *)
(* on the Done channel of its context.  The ticker channel buffers one     *)
(* tick.  A select with both channels ready takes either.                  *)
(***************************************************************************)
NewService == [started |-> FALSE, tick |-> FALSE, stopped |-> FALSE, exited |-> FALSE]

\* GetUploadProgress was not called yet
NoSnapshot == [taken |-> FALSE, val |-> NoProgress]


\* line 39: the goroutine begins with a scan, whatever the context says
FirstScan ==
    /\ ~svc.started
    /\ svc' = [svc EXCEPT !.started = TRUE]
    /\ StartCycle

\* line 42: the ticker, created after the first scan, fires; a tick that
\* finds the buffer full is dropped
Tick ==
    /\ svc.started
    /\ watcher.cycle > 1 \/ watcher.pc = "idle"
    /\ ~svc.exited
    /\ ~svc.tick
    /\ svc' = [svc EXCEPT !.tick = TRUE]
    /\ UNCHANGED <<watchVars, ingestVars>>

\* lines 46-48: the select takes the tick and scans
SelectTick ==
    /\ svc.started
    /\ watcher.cycle > 1 \/ watcher.pc = "idle"
    /\ ~svc.exited
    /\ svc.tick
    /\ svc' = [svc EXCEPT !.tick = FALSE]
    /\ StartCycle

\* lines 49-51: the select takes Done and the goroutine returns
SelectDone ==
    /\ svc.started
    /\ ~svc.exited
    /\ svc.stopped
    /\ watcher.pc = "idle"
    /\ svc' = [svc EXCEPT !.exited = TRUE]
    /\ UNCHANGED <<watchVars, ingestVars>>

\* lines 58-61: Stop cancels the context
Stop ==
    /\ ~svc.stopped
    /\ svc' = [svc EXCEPT !.stopped = TRUE]
    /\ UNCHANGED <<watchVars, ingestVars>>

(***************************************************************************)
(* The media transcoder: GetMessageMedia (auth.go) resolves the media of   *)
(* a stored record, converting HEIC images and legacy video on the way.    *)
(* A string is the sequence of its characters.  The bytes of a blob are    *)
(* not looked into: a blob is a tuple that names what it is.               *)
(***************************************************************************)
UpperChars == <<"A", "B", "C", "D", "E", "F", "G", "H", "I", "J", "K", "L", "M", "N", "O", "P", "Q", "R", "S", "T", "U", "V", "W", "X", "Y", "Z">>
LowerChars == <<"a", "b", "c", "d", "e", "f", "g", "h", "i", "j", "k", "l", "m", "n", "o", "p", "q", "r", "s", "t", "u", "v", "w", "x", "y", "z">>

LowerChar(ch) ==
    IF \E i \in 1..Len(UpperChars) : UpperChars[i] = ch
    THEN LowerChars[CHOOSE i \in 1..Len(UpperChars) : UpperChars[i] = ch]
    ELSE ch

\* strings.ToLower
ToLowerStr(s) == [i \in 1..Len(s) |-> LowerChar(s[i])]

\* strings.TrimSpace
RECURSIVE TrimLeft(_)
TrimLeft(s) == IF s # <<>> /\ Head(s) = " " THEN TrimLeft(Tail(s)) ELSE s

RECURSIVE TrimRight(_)
TrimRight(s) ==
    IF s # <<>> /\ s[Len(s)] = " " THEN TrimRight(SubSeq(s, 1, Len(s) - 1)) ELSE s

TrimSpace(s) == TrimRight(TrimLeft(s))

\* strings.Contains
Contains(s, sub) ==
    \E i \in 1..(Len(s) + 1) :
        i + Len(sub) - 1 <= Len(s) /\ SubSeq(s, i, i + Len(sub) - 1) = sub

MimeHeic == <<"i", "m", "a", "g", "e", "/", "h", "e", "i", "c">>   \* "image/heic"
MimeHeifUpper == <<"I", "M", "A", "G", "E", "/", "H", "E", "I", "F", " ">>   \* "IMAGE/HEIF "
Mime3gpp == <<"v", "i", "d", "e", "o", "/", "3", "g", "p", "p">>   \* "video/3gpp"
MimeMatroska == <<"v", "i", "d", "e", "o", "/", "x", "-", "m", "a", "t", "r", "o", "s", "k", "a">>   \* "video/x-matroska"
MimeAudio3gpp == <<"a", "u", "d", "i", "o", "/", "3", "g", "p", "p">>   \* "audio/3gpp"
MimeMp4 == <<"v", "i", "d", "e", "o", "/", "m", "p", "4">>   \* "video/mp4"
MimeJpeg == <<"i", "m", "a", "g", "e", "/", "j", "p", "e", "g">>   \* "image/jpeg"

\* a plausible slip: the content type is compared as it is stored
isHEICContentType_exact(contentType) ==
    contentType = MimeHeic

\* isHEICContentType
isHEICContentType(contentType) ==
    LET ct == ToLowerStr(TrimSpace(contentType))
    IN  Contains(ct, <<"h", "e", "i", "c">>) \/ Contains(ct, <<"h", "e", "i", "f">>)

unsupportedFormats ==
    <<<<"3", "g", "p", "p">>,
      <<"3", "g", "p">>,
      <<"3", "g", "2">>,
      <<"3", "g", "p", "p", "2">>,
      <<"v", "i", "d", "e", "o", "/", "3", "g", "p", "p">>,
      <<"v", "i", "d", "e", "o", "/", "3", "g", "p">>,
      <<"v", "i", "d", "e", "o", "/", "3", "g", "p", "p", "2">>,
      <<"v", "i", "d", "e", "o", "/", "3", "g", "2">>,
      <<"v", "i", "d", "e", "o", "/", "x", "-", "m", "a", "t", "r", "o", "s", "k", "a">>>>

\* needsVideoConversion
needsVideoConversion(contentType) ==
    LET ct == ToLowerStr(TrimSpace(contentType))
    IN  \E i \in 1..Len(unsupportedFormats) : Contains(ct, unsupportedFormats[i])

Requests == {"r1", "r2"}

TmpNames == 1..MaxTmp

NoTmp == [present |-> FALSE, owner |-> "", data |-> <<>>]

NoResult == [data |-> <<>>, mime |-> <<>>, err |-> ""]

IdleRequest ==
    [pc |-> "idle", rec |-> [data |-> <<>>, mime |-> <<>>], codec |-> "",
     in |-> 0, out |-> 0, result |-> NoResult]

\* the media columns of the stored records: one blob per content type, and
\* a record without media
MediaTypes ==
    <<MimeHeic, MimeHeifUpper, Mime3gpp, MimeMatroska, MimeAudio3gpp, MimeMp4, MimeJpeg>>

StoredMedia ==
    {[data |-> <<"blob", i>>, mime |-> MediaTypes[i]] : i \in 1..Len(MediaTypes)}
    \cup {[data |-> <<>>, mime |-> <<>>]}

\* what the codecs make of a blob
JpegOf(data) == <<"jpeg of", data>>

Mp4Of(data) == <<"mp4 of", data>>

\* generatePlaceholderJPEG: the gray rectangle, whatever the input
PlaceholderJPEG == <<"placeholder jpeg">>

\* heicBuild: the binary was built with -tags heic; ffmpeg: the ffmpeg
\* binary is on the PATH
IdleMedia ==
    [heicBuild |-> FALSE, ffmpeg |-> FALSE,
     tmp |-> [n \in TmpNames |-> NoTmp],
     req |-> [p \in Requests |-> IdleRequest]]

\* the ways a call of convertHEICtoJPEG can end in each build
HEICOutcomes(heicBuild) ==
    IF heicBuild THEN {"converted", "failed"} ELSE {"placeholder", "failed"}

\* convertHEICtoJPEG of heic_enabled.go and of heic_disabled.go
convertHEICtoJPEG(heicData, outcome) ==
    CASE outcome = "converted" -> [ok |-> TRUE, data |-> JpegOf(heicData)]
      [] outcome = "placeholder" -> [ok |-> TRUE, data |-> PlaceholderJPEG]
      [] OTHER -> [ok |-> FALSE, data |-> <<>>]

\* GetMessageMedia, lines 1204-1210 and 1217-1221: the conversion failed
ReturnOriginal(rec) == [data |-> rec.data, mime |-> rec.mime, err |-> ""]

\* a plausible slip: the output file is left behind
RunDefers_inputOnly(tmp, in, out) ==
    [n \in TmpNames |-> IF n = in THEN NoTmp ELSE tmp[n]]

\* convertVideoToMP4, lines 468 and 475: the deferred os.Remove calls
RunDefers(tmp, in, out) ==
    [n \in TmpNames |-> IF n \in {in, out} THEN NoTmp ELSE tmp[n]]

FreeNames == {n \in TmpNames : ~media.tmp[n].present}

\* convertVideoToMP4 returns an error to GetMessageMedia
VideoFails(p, why) ==
    media' = [media EXCEPT
        !.tmp = RunDefers(@, media.req[p].in, media.req[p].out),
        !.req[p].pc = "returned",
        !.req[p].codec = why,
        !.req[p].result = ReturnOriginal(media.req[p].rec)]

\* GetMessageMedia up to the call of convertVideoToMP4
GetMessageMedia(p) ==
    /\ media.req[p].pc = "idle"
    /\ \E rec \in StoredMedia :
         IF rec.data = <<>> \/ rec.mime = <<>>
         THEN media' = [media EXCEPT
                  !.req[p].pc = "returned",
                  !.req[p].rec = rec,
                  !.req[p].result = [NoResult EXCEPT !.err = "no media found"]]
         ELSE IF isHEICContentType(rec.mime)
         THEN \E outcome \in HEICOutcomes(media.heicBuild) :
                LET conv == convertHEICtoJPEG(rec.data, outcome) IN
                media' = [media EXCEPT
                  !.req[p].pc = "returned",
                  !.req[p].rec = rec,
                  !.req[p].codec = outcome,
                  !.req[p].result =
                      IF conv.ok
                      THEN [data |-> conv.data, mime |-> MimeJpeg, err |-> ""]
                      ELSE ReturnOriginal(rec)]
         ELSE IF needsVideoConversion(rec.mime)
         THEN media' = [media EXCEPT !.req[p].pc = "createInput",
                                     !.req[p].rec = rec]
         ELSE media' = [media EXCEPT
                  !.req[p].pc = "returned",
                  !.req[p].rec = rec,
                  !.req[p].result = ReturnOriginal(rec)]

\* convertVideoToMP4, lines 464-469
CreateTempInput(p) ==
    /\ media.req[p].pc = "createInput"
    /\ \/ VideoFails(p, "failed")
       \/ \E n \in FreeNames :
            media' = [media EXCEPT
                !.tmp[n] = [present |-> TRUE, owner |-> p, data |-> <<>>],
                !.req[p].in = n,
                !.req[p].pc = "createOutput"]

\* convertVideoToMP4, lines 471-476
CreateTempOutput(p) ==
    /\ media.req[p].pc = "createOutput"
    /\ \/ VideoFails(p, "failed")
       \/ \E n \in FreeNames :
            media' = [media EXCEPT
                !.tmp[n] = [present |-> TRUE, owner |-> p, data |-> <<>>],
                !.req[p].out = n,
                !.req[p].pc = "write"]

\* convertVideoToMP4, lines 478-483
WriteInput(p) ==
    /\ media.req[p].pc = "write"
    /\ \/ VideoFails(p, "failed")
       \/ media' = [media EXCEPT
                !.tmp[media.req[p].in].data = media.req[p].rec.data,
                !.req[p].pc = "ffmpeg"]

\* convertVideoToMP4, lines 485-509: ffmpeg reads the input file and writes
\* the output file
RunFFmpeg(p) ==
    /\ media.req[p].pc = "ffmpeg"
    /\ IF ~media.ffmpeg
       THEN VideoFails(p, "unavailable")
       ELSE \/ VideoFails(p, "failed")
            \/ media' = [media EXCEPT
                 !.tmp[media.req[p].out].data = Mp4Of(media.tmp[media.req[p].in].data),
                 !.req[p].pc = "read"]

\* convertVideoToMP4, lines 511-518, and GetMessageMedia, lines 1223-1224
ReadOutput(p) ==
    /\ media.req[p].pc = "read"
    /\ \/ VideoFails(p, "failed")
       \/ media' = [media EXCEPT
            !.tmp = RunDefers(@, media.req[p].in, media.req[p].out),
            !.req[p].pc = "returned",
            !.req[p].codec = "converted",
            !.req[p].result =
                [data |-> media.tmp[media.req[p].out].data, mime |-> MimeMp4,
                 err |-> ""]]

(***************************************************************************)
(* The progress locks.  uploadProgressLock guards the global pointer and   *)
(* uploadProgress.mu the fields of the struct it points at.  Here every    *)
(* lock, unlock and field access is a step of its own: two parse runs      *)
(* write, a poll of the progress endpoint reads.  The struct is the        *)
(* variable progress; copy is the struct GetUploadProgress fills.          *)
(***************************************************************************)
Writers == {"upload", "auto"}

Threads == Writers \cup {"poll"}

FreeLock == [w |-> "", r |-> {}]

\* sync.RWMutex: Lock waits for every holder, RLock for the writer
CanLock(lock, mode) ==
    IF mode = "W" THEN lock.w = "" /\ lock.r = {} ELSE lock.w = ""

Locked(lock, mode, t) ==
    IF mode = "W" THEN [lock EXCEPT !.w = t] ELSE [lock EXCEPT !.r = @ \cup {t}]

Unlocked(lock, t) ==
    [w |-> IF lock.w = t THEN "" ELSE lock.w, r |-> lock.r \ {t}]

Holds(lock, t) == lock.w = t \/ t \in lock.r

\* a plausible slip: GetUploadProgress reads without the locks
lockPlan_unlockedRead(op) ==
    CASE op = "Begin" -> <<<<"outer", "W">>>>
      [] op = "GetUploadProgress" -> <<>>
      [] op \in {"UpdateMessageProgress", "UpdateCallProgress"} ->
            <<<<"outer", "R">>, <<"inner", "W">>>>
      [] OTHER -> <<<<"outer", "W">>, <<"inner", "W">>>>

\* the locks each operation takes, in the order it takes them
lockPlan(op) ==
    CASE op = "Begin" -> <<<<"outer", "W">>>>
      [] op = "GetUploadProgress" -> <<<<"outer", "R">>, <<"inner", "R">>>>
      [] op \in {"UpdateMessageProgress", "UpdateCallProgress"} ->
            <<<<"outer", "R">>, <<"inner", "W">>>>
      [] OTHER -> <<<<"outer", "W">>, <<"inner", "W">>>>

Assign(field, val) == [field |-> field, val |-> val, inc |-> FALSE]

\* the operations of a parse run on the progress, with the fields they
\* write in the order of the code
OpBegin == [name |-> "Begin", writes |-> <<>>]

OpRootCount ==
    [name |-> "RootCount", writes |-> <<Assign("TotalMessages", 2)>>]

OpUpdateMessage ==
    [name |-> "UpdateMessageProgress", writes |-> <<Assign("ProcessedMessages", 1)>>]

OpCallInserted ==
    [name |-> "CallInserted",
     writes |-> <<[field |-> "TotalCalls", val |-> 0, inc |-> TRUE],
                  Assign("ProcessedCalls", 1)>>]

OpSetUploadProgress(total, processed, status) ==
    [name |-> "SetUploadProgress",
     writes |-> <<Assign("TotalMessages", total),
                  Assign("ProcessedMessages", processed),
                  Assign("Status", status)>>]

OpSetErrorMessage ==
    [name |-> "SetErrorMessage",
     writes |-> <<Assign("ErrorMessage", "Failed to process file")>>]

\* the fields GetUploadProgress copies, in the order of its struct literal
ReadFields ==
    <<"TotalMessages", "ProcessedMessages", "TotalCalls", "ProcessedCalls",
      "Status", "ErrorMessage">>

OpGetUploadProgress == [name |-> "GetUploadProgress", writes |-> <<>>]

\* a run that reads a message and a call and ends, and a run that meets a
\* stream error after the message (the upload then reports the error)
Programs(t) ==
    {<<OpBegin, OpRootCount, OpUpdateMessage, OpCallInserted,
       OpSetUploadProgress(1, 1, "completed")>>,
     IF t = "upload"
     THEN <<OpBegin, OpRootCount, OpUpdateMessage,
            OpSetUploadProgress(0, 0, "error"),
            OpSetUploadProgress(0, 0, "error"), OpSetErrorMessage>>
     ELSE <<OpBegin, OpRootCount, OpUpdateMessage,
            OpSetUploadProgress(0, 0, "error")>>}

IdleThread == [prog |-> <<>>, idx |-> 0, phase |-> "idle", k |-> 0, i |-> 0]

NoReturn == [taken |-> FALSE, ref |-> "nil", val |-> NoProgress]

IdleLocks ==
    [outer |-> FreeLock, inner |-> FreeLock,
     th |-> [t \in Threads |-> IdleThread],
     copy |-> NoProgress, ret |-> NoReturn,
     committed |-> NoProgress, instants |-> {}]

CurrentOp(t) == lk.th[t].prog[lk.th[t].idx]

Plan(t) == lockPlan(CurrentOp(t).name)

\* the number of field accesses of the operation
Accesses(t) ==
    IF CurrentOp(t).name = "GetUploadProgress" THEN Len(ReadFields)
    ELSE IF CurrentOp(t).name = "Begin" THEN 1
    ELSE Len(CurrentOp(t).writes)

\* ParseSMSBackupStreaming or ProcessUploadedFile is called
StartRun(t) ==
    /\ t \in Writers
    /\ lk.th[t].phase = "idle"
    /\ lk.th[t].idx = 0
    /\ \E prog \in Programs(t) :
         lk' = [lk EXCEPT !.th[t] = [prog |-> prog, idx |-> 1, phase |-> "lock",
                                     k |-> 0, i |-> 0]]
    /\ UNCHANGED progress

\* HandleProgress calls GetUploadProgress
StartPoll ==
    /\ lk.th["poll"].phase = "idle"
    /\ lk' = [lk EXCEPT !.th["poll"] = [prog |-> <<OpGetUploadProgress>>, idx |-> 1,
                                        phase |-> "lock", k |-> 0, i |-> 0],
                        !.copy = [NoProgress EXCEPT !.exists = TRUE],
                        !.instants = {lk.committed}]
    /\ UNCHANGED progress

\* the next Lock or RLock of the operation; a nil pointer ends
\* GetUploadProgress and the Update functions before the inner lock
Acquire(t) ==
    /\ lk.th[t].phase = "lock"
    /\ IF lk.th[t].k = Len(Plan(t))
       THEN lk' = [lk EXCEPT !.th[t].phase = "access"]
       ELSE LET lock == Plan(t)[lk.th[t].k + 1][1]
                mode == Plan(t)[lk.th[t].k + 1][2]
            IN  IF /\ lock = "inner"
                   /\ ~progress.exists
                   /\ CurrentOp(t).name \in {"GetUploadProgress", "UpdateMessageProgress"}
                THEN lk' = [lk EXCEPT !.th[t].phase = "unlock",
                                      !.copy = IF t = "poll" THEN NoProgress ELSE @]
                ELSE /\ CanLock(lk[lock], mode)
                     /\ lk' = [lk EXCEPT ![lock] = Locked(@, mode, t),
                                         !.th[t].k = @ + 1]
    /\ UNCHANGED progress

\* one field is written, or the pointer is set to a new struct
WriteField(t) ==
    /\ t \in Writers
    /\ lk.th[t].phase = "access"
    /\ lk.th[t].i < Accesses(t)
    /\ progress' =
         IF CurrentOp(t).name = "Begin" THEN NewProgress
         ELSE LET w == CurrentOp(t).writes[lk.th[t].i + 1]
              IN  [progress EXCEPT ![w.field] = IF w.inc THEN @ + 1 ELSE w.val]
    /\ lk' = IF lk.th[t].i + 1 = Accesses(t)
             THEN [lk EXCEPT !.th[t].i = @ + 1,
                             !.th[t].phase = "unlock",
                             !.committed = progress',
                             !.instants = @ \cup {progress'}]
             ELSE [lk EXCEPT !.th[t].i = @ + 1]

\* one field is copied into the struct GetUploadProgress returns
ReadField ==
    /\ lk.th["poll"].phase = "access"
    /\ lk.th["poll"].i < Len(ReadFields)
    /\ LET f == ReadFields[lk.th["poll"].i + 1]
       IN  lk' = [lk EXCEPT !.copy[f] = progress[f],
                            !.th["poll"].i = @ + 1,
                            !.th["poll"].phase =
                                IF lk.th["poll"].i + 1 = Len(ReadFields)
                                THEN "unlock" ELSE "access"]
    /\ UNCHANGED progress

\* the deferred Unlock and RUnlock calls; the run goes on to its next
\* operation, the poll returns its struct
Release(t) ==
    /\ lk.th[t].phase = "unlock"
    /\ lk' = [lk EXCEPT
         !.outer = Unlocked(@, t),
         !.inner = Unlocked(@, t),
         !.th[t] = IF t = "poll" THEN IdleThread
                   ELSE IF lk.th[t].idx = Len(lk.th[t].prog)
                   THEN [IdleThread EXCEPT !.idx = lk.th[t].idx, !.phase = "done"]
                   ELSE [@ EXCEPT !.idx = @ + 1, !.phase = "lock", !.k = 0, !.i = 0],
         !.ret = IF t # "poll" THEN @
                 ELSE IF lk.copy.exists
                 THEN [taken |-> TRUE, ref |-> "copy", val |-> lk.copy]
                 ELSE [taken |-> TRUE, ref |-> "nil", val |-> NoProgress]]
    /\ UNCHANGED progress

(***************************************************************************)
(* GetUserDB (auth.go 537-563) and the userDBs map it caches the store     *)
(* handles in.  A handle is the number of the sql.Open call that made it;  *)
(* dbs.opened[h] is the user it was opened for.  Each section under        *)
(* userDBsMutex is one step; the calls of InitUserDB between them are not  *)
(* under the mutex.                                                        *)
(***************************************************************************)
Users == {"u1", "u2"}

\* the goroutines that call GetUserDB: an upload and the auto-import scan
Callers == {"upload", "scan"}

IdleCaller == [pc |-> "idle", user |-> "u1", userDB |-> 0, calls |-> 0]

\* line 285: the empty map; 0 stands for no entry
NoHandles ==
    [cache |-> [u \in Users |-> 0], opened |-> <<>>,
     call |-> [c \in Callers |-> IdleCaller], handed |-> {}]

\* lines 539-541: the lookup under the read lock
LookupDB(c, u) ==
    /\ dbs.call[c].pc = "idle"
    /\ dbs.call[c].calls < MaxCalls
    /\ dbs' = [dbs EXCEPT !.call[c] =
                 [pc |-> IF dbs.cache[u] # 0 THEN "return" ELSE "init",
                  user |-> u, userDB |-> dbs.cache[u], calls |-> @.calls + 1]]

\* lines 428-436: InitUserDB opens the store file; on an error GetUserDB
\* returns it and no handle
OpenDB(c) ==
    /\ dbs.call[c].pc = "init"
    /\ \E ok \in BOOLEAN :
         IF ok
         THEN dbs' = [dbs EXCEPT !.opened = Append(@, dbs.call[c].user),
                                 !.call[c].userDB = Len(dbs.opened) + 1,
                                 !.call[c].pc = "store"]
         ELSE dbs' = [dbs EXCEPT !.call[c].pc = "idle", !.call[c].userDB = 0]

\* lines 528-531: the new handle is put in the map under the write lock
StoreDB(c) ==
    /\ dbs.call[c].pc = "store"
    /\ dbs' = [dbs EXCEPT !.cache[dbs.call[c].user] = dbs.call[c].userDB,
                          !.call[c].pc = "reload"]

\* lines 557-559: the map is read again under the read lock
ReloadDB(c) ==
    /\ dbs.call[c].pc = "reload"
    /\ dbs' = [dbs EXCEPT !.call[c].userDB = dbs.cache[dbs.call[c].user],
                          !.call[c].pc = "return"]

\* line 562: the caller gets the handle
ReturnDB(c) ==
    /\ dbs.call[c].pc = "return"
    /\ dbs' = [dbs EXCEPT
         !.handed = @ \cup {[user |-> dbs.call[c].user, db |-> dbs.call[c].userDB]},
         !.call[c].pc = "idle"]

NextDB ==
    \E c \in Callers :
        \/ \E u \in Users : LookupDB(c, u) /\ UNCHANGED <<pureVars, ingestVars, watchVars, svc, got, media, lk>>
        \/ OpenDB(c) /\ UNCHANGED <<pureVars, ingestVars, watchVars, svc, got, media, lk>>
        \/ StoreDB(c) /\ UNCHANGED <<pureVars, ingestVars, watchVars, svc, got, media, lk>>
        \/ ReloadDB(c) /\ UNCHANGED <<pureVars, ingestVars, watchVars, svc, got, media, lk>>
        \/ ReturnDB(c) /\ UNCHANGED <<pureVars, ingestVars, watchVars, svc, got, media, lk>>

InitSideVars ==
    /\ svc = NewService
    /\ got = NoSnapshot
    /\ media = IdleMedia
    /\ lk = IdleLocks
    /\ dbs = NoHandles

(***************************************************************************)
(* Inputs of the pure functions.                                           *)
(***************************************************************************)
\* n digits: d1 first, then the digits 2, 3, ... in turn
DigitRun(n, d1) ==
    [i \in 1..n |-> IF i = 1 THEN d1 ELSE DigitChars[(i % 10) + 1]]

InsertAt(s, p, ch) == SubSeq(s, 1, p) \o <<ch>> \o SubSeq(s, p + 1, Len(s))

PhoneLeads == {<<>>, <<"+">>, <<" ">>, <<"(">>}

PhoneDigitRuns == {DigitRun(n, d1) : n \in 0..MaxDigits, d1 \in {"1", "5"}}

\* digit runs, bare or with one more character somewhere, after a lead
PhoneInputs ==
    {lead \o body : lead \in PhoneLeads, body \in PhoneDigitRuns}
    \cup {lead \o InsertAt(DigitRun(n, d1), n \div 2, ch) :
            lead \in PhoneLeads, n \in 0..MaxDigits, d1 \in {"1", "5"},
            ch \in {"-", "+", ")"}}
    \cup {AddrDashed, AddrPlus, AddrShort, AddrIntl, AddrWords}

RECURSIVE SeqsUpTo(_, _)
SeqsUpTo(S, n) ==
    IF n = 0 THEN {<<>>}
    ELSE LET shorter == SeqsUpTo(S, n - 1)
         IN  shorter \cup {Append(q, x) : q \in {t \in shorter : Len(t) = n - 1}, x \in S}

\* <addr> children: "to" (151) for every spelling, "from" (137) for two
MMSAddrInputs ==
    {MMSAddr(a, <<"1", "5", "1">>) :
        a \in {AddrDashed, AddrPlus, AddrShort, AddrIntl, AddrWords}}
    \cup {MMSAddr(a, <<"1", "3", "7">>) : a \in {AddrIntl, AddrDashed}}

MMSInputs ==
    {MMSEntry(a, <<"3", "0", "0", "0">>, t, "1", RelatedCT, "m1", addrs,
              <<SmilPart, TextPart, JpegPart>>) :
        a \in {AddrShort, AddrDashed}, t \in {<<"1">>, <<"2">>},
        addrs \in SeqsUpTo(MMSAddrInputs, MaxAddrs)}

\* <part> children: markup, text, media with and without a payload that
\* decodes, a contact card, a caption on a part without payload
VCardPart     == MMSPart("text/x-vCard", <<"null">>, "eW8=")
HeicPart      == MMSPart("image/heic", <<"null">>, "eW8=")
BrokenPart    == MMSPart("video/3gpp", <<"null">>, "!!")
CaptionPart   == MMSPart("video/3gpp", <<"cap">>, "")
SmilDataPart  == MMSPart("application/smil", <<"smil">>, "aGk=")

PartPool ==
    {SmilPart, SmilDataPart, TextPart, JpegPart, HeicPart, VCardPart, BrokenPart,
     CaptionPart}

MMSPartInputs ==
    {MMSEntry(AddrShort, <<"3", "0", "0", "0">>, <<"1">>, "1", RelatedCT, "m1",
              <<MMSAddr(AddrShort, <<"1", "3", "7">>)>>, parts) :
        parts \in SeqsUpTo(PartPool, MaxParts)}

InitPureVars ==
    /\ fn = "none"
    /\ fnIn = <<>>
    /\ fnOut = <<>>
    /\ fnDone = FALSE

InitPure ==
    /\ \/ fn = "normalizePhoneNumber" /\ fnIn \in PhoneInputs
       \/ fn = "convertMMSEntry" /\ fnIn \in MMSInputs \cup MMSPartInputs
    /\ fnOut = <<>>
    /\ fnDone = FALSE
    /\ InitIngestVars
    /\ InitWatchVars
    /\ InitSideVars

ApplyNormalize ==
    /\ fn = "normalizePhoneNumber"
    /\ ~fnDone
    /\ fnOut' = normalizePhoneNumber(fnIn)
    /\ fnDone' = TRUE
    /\ UNCHANGED <<fn, fnIn, ingestVars, watchVars, sideVars>>

ApplyConvertMMS ==
    /\ fn = "convertMMSEntry"
    /\ ~fnDone
    /\ fnOut' = convertMMSEntry(fnIn)
    /\ fnDone' = TRUE
    /\ UNCHANGED <<fn, fnIn, ingestVars, watchVars, sideVars>>

NextPure == ApplyNormalize \/ ApplyConvertMMS

SpecPure == InitPure /\ [][NextPure]_vars

(***************************************************************************)
(* The ingestion specification: two parse runs on one store.               *)
(***************************************************************************)
Init ==
    /\ InitPureVars
    /\ InitIngestVars
    /\ InitWatchVars
    /\ InitSideVars

Next ==
    \E r \in Runs :
        \/ Begin(r) /\ UNCHANGED <<pureVars, watchVars, sideVars>>
        \/ ReadRoot(r, DeclaredCounts) /\ UNCHANGED <<pureVars, watchVars, sideVars>>
        \/ ReadEntry(r, RacePool, MaxEntries) /\ UNCHANGED <<pureVars, watchVars, sideVars>>
        \/ StreamError(r) /\ UNCHANGED <<pureVars, watchVars, sideVars>>
        \/ EndOfStream(r) /\ UNCHANGED <<pureVars, watchVars, sideVars>>

Spec == Init /\ [][Next]_vars

(***************************************************************************)
(* The parse specification: one parse run on documents of every entry      *)
(* shape the converters tell apart.                                        *)
(***************************************************************************)
NextParse ==
    \/ Begin("upload") /\ UNCHANGED <<pureVars, watchVars, sideVars>>
    \/ ReadRoot("upload", DeclaredCounts) /\ UNCHANGED <<pureVars, watchVars, sideVars>>
    \/ ReadEntry("upload", Pool, MaxDocLen) /\ UNCHANGED <<pureVars, watchVars, sideVars>>
    \/ StreamError("upload") /\ UNCHANGED <<pureVars, watchVars, sideVars>>
    \/ EndOfStream("upload") /\ UNCHANGED <<pureVars, watchVars, sideVars>>

SpecParse == Init /\ [][NextParse]_vars

(***************************************************************************)
(* The watcher specification: the scan cycles of the auto-import service   *)
(* and a user working in the ingest directory.                             *)
(***************************************************************************)
NextWatch ==
    \/ \E name \in FileNames : Drop(name) /\ UNCHANGED <<pureVars, sideVars>>
    \/ \E name \in FileNames : Write(name) /\ UNCHANGED <<pureVars, sideVars>>
    \/ \E name \in FileNames : Touch(name) /\ UNCHANGED <<pureVars, sideVars>>
    \/ \E name \in FileNames : Remove(name) /\ UNCHANGED <<pureVars, sideVars>>
    \/ StartCycle /\ UNCHANGED <<pureVars, sideVars>>
    \/ Stat1 /\ UNCHANGED <<pureVars, sideVars>>
    \/ Stat2 /\ UNCHANGED <<pureVars, sideVars>>
    \/ OpenImport /\ UNCHANGED <<pureVars, sideVars>>
    \/ WatchReadRoot /\ UNCHANGED <<pureVars, sideVars>>
    \/ WatchReadEntry /\ UNCHANGED <<pureVars, sideVars>>
    \/ WatchStreamError /\ UNCHANGED <<pureVars, sideVars>>
    \/ WatchEndOfStream /\ UNCHANGED <<pureVars, sideVars>>
    \/ FinishImport /\ UNCHANGED <<pureVars, sideVars>>
    \/ EndCycle /\ UNCHANGED <<pureVars, sideVars>>

SpecWatch == Init /\ [][NextWatch]_vars

\* lines 789-796 and 858-870: InsertMessage or InsertCallLog returns an
\* error (the store is busy or full); the error is logged, nothing is
\* counted and the loop goes on to the next element
InsertFails(r, pool, limit) ==
    /\ run[r].pc = "parsing"
    /\ run[r].root
    /\ EntriesRead < limit
    /\ \E e \in pool :
         /\ convertEntry(e).ok
         /\ run' = [run EXCEPT ![r].seen = Append(@, e)]
    /\ UNCHANGED <<store, progress, snap>>

WatchInsertFails ==
    /\ watcher.pc = "parsing"
    /\ Len(run["auto"].seen) < fs.files[watcher.h].len
    /\ InsertFails("auto", {WatchDoc[Len(run["auto"].seen) + 1]},
                   fs.files[watcher.h].len)
    /\ UNCHANGED watchVars

(***************************************************************************)
(* The watcher on a store whose insert statements may fail.                *)
(***************************************************************************)
NextFaulty ==
    \/ NextWatch
    \/ WatchInsertFails /\ UNCHANGED <<pureVars, sideVars>>

SpecFaulty == Init /\ [][NextFaulty]_vars

(***************************************************************************)
(* The service specification: the watcher driven by its goroutine, with    *)
(* Stop called at any moment.                                              *)
(***************************************************************************)
NextService ==
    \/ FirstScan /\ UNCHANGED <<pureVars, got, media, lk, dbs>>
    \/ Tick /\ UNCHANGED <<pureVars, got, media, lk, dbs>>
    \/ SelectTick /\ UNCHANGED <<pureVars, got, media, lk, dbs>>
    \/ SelectDone /\ UNCHANGED <<pureVars, got, media, lk, dbs>>
    \/ Stop /\ UNCHANGED <<pureVars, got, media, lk, dbs>>
    \/ \E name \in FileNames : Drop(name) /\ UNCHANGED <<pureVars, sideVars>>
    \/ \E name \in FileNames : Write(name) /\ UNCHANGED <<pureVars, sideVars>>
    \/ Stat1 /\ UNCHANGED <<pureVars, sideVars>>
    \/ Stat2 /\ UNCHANGED <<pureVars, sideVars>>
    \/ OpenImport /\ UNCHANGED <<pureVars, sideVars>>
    \/ WatchReadRoot /\ UNCHANGED <<pureVars, sideVars>>
    \/ WatchReadEntry /\ UNCHANGED <<pureVars, sideVars>>
    \/ WatchStreamError /\ UNCHANGED <<pureVars, sideVars>>
    \/ WatchEndOfStream /\ UNCHANGED <<pureVars, sideVars>>
    \/ FinishImport /\ UNCHANGED <<pureVars, sideVars>>
    \/ EndCycle /\ UNCHANGED <<pureVars, sideVars>>

SpecService == Init /\ [][NextService]_vars

(***************************************************************************)
(* The relocation specification: the watcher started on a complete         *)
(* directory that holds a.xml and its log from an earlier run of the       *)
(* service.                                                                *)
(***************************************************************************)
EarlierFile == [name |-> NameA, stamp |-> 0, id |-> 0]

EarlierLog == [name |-> NameA, stamp |-> 0, lines |-> <<"Starting import">>]

InitRelocate ==
    /\ InitPureVars
    /\ InitIngestVars
    /\ InitSideVars
    /\ fs = [files |-> [i \in FileIds |-> NoFile],
             ingest |-> [n \in FileNames |-> 0],
             logs |-> [n \in FileNames |-> NoLog],
             complete |-> {EarlierFile}, completeLogs |-> {EarlierLog},
             drops |-> 0, writes |-> 0]
    /\ watcher = IdleWatcher
    /\ wlog = {}

SpecRelocate == InitRelocate /\ [][NextWatch]_vars

(***************************************************************************)
(* Progress reporting.  ProcessUploadedFile wraps the upload run: when the *)
(* parser returns an error it marks the progress once more and then writes *)
(* the message in a lock section of its own.  parseXMLBackup, the caller   *)
(* of the auto-import run, hands the error on and writes nothing.          *)
(* HandleProgress polls GetUploadProgress at any moment.                   *)
(***************************************************************************)
ProgressPool == {smsA, smsBadDate, callC}

\* GetUploadProgress, lines 563-584: nil, or a fresh struct filled field by
\* field while both read locks are held
GetUploadProgress(p) ==
    IF ~p.exists THEN NoProgress
    ELSE [exists |-> TRUE, Status |-> p.Status,
          TotalMessages |-> p.TotalMessages,
          ProcessedMessages |-> p.ProcessedMessages,
          TotalCalls |-> p.TotalCalls, ProcessedCalls |-> p.ProcessedCalls,
          ErrorMessage |-> p.ErrorMessage]

\* HandleProgress: the status field of the JSON reply to a snapshot
HandleProgress(snapshot) ==
    IF ~snapshot.exists THEN "no_upload" ELSE snapshot.Status

\* HandleProgress: one poll of the progress endpoint
Poll ==
    /\ got' = [taken |-> TRUE, val |-> GetUploadProgress(progress)]
    /\ UNCHANGED <<ingestVars, svc, media, lk, dbs>>

\* ProcessUploadedFile, lines 714-716: the parser returned its error
ReportError ==
    /\ run["upload"].pc = "failed"
    /\ run' = [run EXCEPT !["upload"].pc = "reporting"]
    /\ progress' = SetUploadProgress(progress, 0, 0, "error")
    /\ UNCHANGED <<store, snap>>

\* ProcessUploadedFile, lines 717-724: the message, in its own lock section
SetErrorMessage ==
    /\ run["upload"].pc = "reporting"
    /\ run' = [run EXCEPT !["upload"].pc = "reported"]
    /\ progress' = IF progress.exists
                   THEN [progress EXCEPT !.ErrorMessage = "Failed to process file"]
                   ELSE progress
    /\ UNCHANGED <<store, snap>>

NextProgress ==
    \/ \E r \in Runs : Begin(r) /\ UNCHANGED <<pureVars, watchVars, sideVars>>
    \/ \E r \in Runs : ReadRoot(r, DeclaredCounts) /\ UNCHANGED <<pureVars, watchVars, sideVars>>
    \/ \E r \in Runs : ReadEntry(r, ProgressPool, MaxDocLen) /\ UNCHANGED <<pureVars, watchVars, sideVars>>
    \/ \E r \in Runs : StreamError(r) /\ UNCHANGED <<pureVars, watchVars, sideVars>>
    \/ \E r \in Runs : EndOfStream(r) /\ UNCHANGED <<pureVars, watchVars, sideVars>>
    \/ ReportError /\ UNCHANGED <<pureVars, watchVars, sideVars>>
    \/ SetErrorMessage /\ UNCHANGED <<pureVars, watchVars, sideVars>>
    \/ Poll /\ UNCHANGED <<pureVars, watchVars>>

SpecProgress == Init /\ [][NextProgress]_vars

(***************************************************************************)
(* The re-import specification: an upload that ends, with or without a     *)
(* stream error, and an import of the same user that starts afterwards.    *)
(***************************************************************************)
NextReimport ==
    \E r \in Runs :
        \/ /\ r = "auto" => run["upload"].pc \in {"failed", "done"}
           /\ Begin(r) /\ UNCHANGED <<pureVars, watchVars, sideVars>>
        \/ ReadRoot(r, DeclaredCounts) /\ UNCHANGED <<pureVars, watchVars, sideVars>>
        \/ ReadEntry(r, RacePool, MaxEntries) /\ UNCHANGED <<pureVars, watchVars, sideVars>>
        \/ StreamError(r) /\ UNCHANGED <<pureVars, watchVars, sideVars>>
        \/ EndOfStream(r) /\ UNCHANGED <<pureVars, watchVars, sideVars>>

SpecReimport == Init /\ [][NextReimport]_vars

(***************************************************************************)
(* The media specification: two media requests served at the same time,   *)
(* in either build and with or without ffmpeg.                             *)
(***************************************************************************)
InitMedia ==
    /\ InitPureVars
    /\ InitIngestVars
    /\ InitWatchVars
    /\ svc = NewService
    /\ got = NoSnapshot
    /\ lk = IdleLocks
    /\ dbs = NoHandles
    /\ \E heicBuild \in BOOLEAN, ffmpeg \in BOOLEAN :
         media = [IdleMedia EXCEPT !.heicBuild = heicBuild, !.ffmpeg = ffmpeg]

NextMedia ==
    \E p \in Requests :
        \/ GetMessageMedia(p) /\ UNCHANGED <<pureVars, ingestVars, watchVars, svc, got, lk, dbs>>
        \/ CreateTempInput(p) /\ UNCHANGED <<pureVars, ingestVars, watchVars, svc, got, lk, dbs>>
        \/ CreateTempOutput(p) /\ UNCHANGED <<pureVars, ingestVars, watchVars, svc, got, lk, dbs>>
        \/ WriteInput(p) /\ UNCHANGED <<pureVars, ingestVars, watchVars, svc, got, lk, dbs>>
        \/ RunFFmpeg(p) /\ UNCHANGED <<pureVars, ingestVars, watchVars, svc, got, lk, dbs>>
        \/ ReadOutput(p) /\ UNCHANGED <<pureVars, ingestVars, watchVars, svc, got, lk, dbs>>

SpecMedia == InitMedia /\ [][NextMedia]_vars

(***************************************************************************)
(* The lock specification: the two parse runs and the progress poll, one   *)
(* lock operation or field access at a time.                               *)
(***************************************************************************)
NextLocks ==
    \/ \E t \in Writers : StartRun(t) /\ UNCHANGED <<pureVars, store, run, snap, watchVars, svc, got, media, dbs>>
    \/ StartPoll /\ UNCHANGED <<pureVars, store, run, snap, watchVars, svc, got, media, dbs>>
    \/ \E t \in Threads : Acquire(t) /\ UNCHANGED <<pureVars, store, run, snap, watchVars, svc, got, media, dbs>>
    \/ \E t \in Writers : WriteField(t) /\ UNCHANGED <<pureVars, store, run, snap, watchVars, svc, got, media, dbs>>
    \/ ReadField /\ UNCHANGED <<pureVars, store, run, snap, watchVars, svc, got, media, dbs>>
    \/ \E t \in Threads : Release(t) /\ UNCHANGED <<pureVars, store, run, snap, watchVars, svc, got, media, dbs>>

SpecLocks == Init /\ [][NextLocks]_vars




(***************************************************************************)
(* Properties of the ingestion pipeline.                                   *)
(***************************************************************************)
BothDone == \A r \in Runs : run[r].pc = "done"

BothEnded == \A r \in Runs : run[r].pc \in {"done", "failed"}

SeenEntries == SeqRange(run["upload"].seen) \cup SeqRange(run["auto"].seen)

\* the uniqueness tuple as section 3 of the specification lists it
RecordTuple(row) ==
    <<row.record_type, row.address, row.date, row.type,
      IF row.body = <<>> THEN <<>> ELSE row.body[1],
      IF row.content_type = <<>> THEN "" ELSE row.content_type[1],
      IF row.message_id = <<>> THEN "" ELSE row.message_id[1],
      IF row.duration = <<>> THEN 0 ELSE row.duration[1]>>

TupleSet(table) == {RecordTuple(table[i]) : i \in 1..Len(table)}

\* the store one sequential import of doc leaves, starting from table
RECURSIVE IngestAll(_, _)
IngestAll(table, doc) ==
    IF doc = <<>> THEN table
    ELSE LET conv == convertEntry(Head(doc)) IN
         IngestAll(IF conv.ok THEN InsertRow(table, RowOf(conv.rec)) ELSE table,
                   Tail(doc))

\* C1: importing the same document a second time, after the first import
\* into the empty store has ended, leaves the store exactly as the first
\* import left it (same rows, same count).
IdempotentImport ==
    (BothDone /\ snap.set /\ run["upload"].seen = run["auto"].seen)
        => store = snap.table

IdempotentImportWitness ==
    /\ BothDone
    /\ snap.set
    /\ run["upload"].seen = run["auto"].seen
    /\ Len(store) >= 1
    /\ store = snap.table

\* C2: no two stored rows agree on the whole uniqueness tuple.
UniqueRows ==
    \A i, j \in 1..Len(store) :
        i # j => RecordTuple(store[i]) # RecordTuple(store[j])

UniqueRowsWitness ==
    /\ BothEnded
    /\ Len(store) >= 2
    /\ \E r \in Runs : \E i, j \in 1..Len(run[r].seen) :
         i # j /\ run[r].seen[i] = run[r].seen[j] /\ convertEntry(run[r].seen[i]).ok
    /\ \E e \in SeenEntries : e.tag = "call" /\ convertEntry(e).ok

\* C3 as stated: whatever the interleaving, the final store has the rows
\* that importing the first document and then the second one leaves.
InterleavingSameContent ==
    BothDone =>
        SeqRange(store) =
            SeqRange(IngestAll(<<>>, run["upload"].seen \o run["auto"].seen))

\* C3 amended: whatever the interleaving, the final store has the same set
\* of uniqueness tuples, one row each; the other columns of a row are those
\* of the insert that came first.
SameTuplesAtEnd ==
    BothEnded =>
        /\ TupleSet(store) =
             TupleSet(IngestAll(<<>>, run["upload"].seen \o run["auto"].seen))
        /\ Len(store) = Cardinality(TupleSet(store))
        /\ \A i \in 1..Len(store) :
             \E e \in SeenEntries :
                convertEntry(e).ok /\ store[i] = RowOf(convertEntry(e).rec)

FirstInsertWins == \A i \in 1..Len(store) : i <= Len(store') /\ store'[i] = store[i]

InterleavingSameTuples == []SameTuplesAtEnd /\ [][FirstInsertWins]_vars

InterleavingSameTuplesWitness ==
    /\ BothEnded
    /\ run["upload"].seen = <<smsA, callC>>
    /\ run["auto"].seen = <<smsA2>>
    /\ Len(store) = 2
    /\ store[1].read = TRUE

\* the digits of a spelling, and the ten-digit national number it spells
PlainDigits(s) == SelectSeq(s, IsDigit)

NationalNumber(s) ==
    LET d == PlainDigits(s) IN
    IF Len(d) = 10 /\ (s = <<>> \/ s[1] # "+") THEN d
    ELSE IF Len(d) = 11 /\ d[1] = "1" THEN Tail(d)
    ELSE <<>>

\* two spellings of one North American number: punctuation, "1", "+1"
SameNumber(a, b) == NationalNumber(a) # <<>> /\ NationalNumber(a) = NationalNumber(b)

\* optional sign, then one digit or more
LooksInteger(s) ==
    LET body == IF s # <<>> /\ s[1] \in {"+", "-"} THEN Tail(s) ELSE s
    IN  body # <<>> /\ \A i \in 1..Len(body) : IsDigit(body[i])

MillisToSeconds(s) == DigitsValue(s, 0) \div 1000

\* C4: two sms entries that spell the same number differently and agree on
\* date, body and type get one address key and are one stored row.
DedupReformatted ==
    \A e1, e2 \in SeenEntries :
        (/\ e1.tag = "sms" /\ e2.tag = "sms"
         /\ e1.address # e2.address
         /\ SameNumber(e1.address, e2.address)
         /\ e1.date = e2.date /\ e1.body = e2.body /\ e1.type = e2.type
         /\ LooksInteger(e1.date))
        => /\ normalizePhoneNumber(e1.address) = normalizePhoneNumber(e2.address)
           /\ Cardinality({i \in 1..Len(store) :
                  /\ store[i].record_type = 1
                  /\ PlainDigits(store[i].address) \in
                        {<<"1">> \o NationalNumber(e1.address),
                         NationalNumber(e1.address)}
                  /\ store[i].date = MillisToSeconds(e1.date)
                  /\ store[i].body = <<e1.body>>}) = 1

DedupReformattedWitness ==
    /\ BothDone
    /\ run["upload"].seen = <<smsA2>>
    /\ run["auto"].seen = <<smsA>>
    /\ Len(store) = 1
    /\ store[1].address = AddrPlus

(***************************************************************************)
(* Properties of a single parse run.                                       *)
(***************************************************************************)
Last(q) == q[Len(q)]

GoodDates(doc) == {i \in 1..Len(doc) : LooksInteger(doc[i].date)}

\* C7: reading an entry whose date is not an integer stores nothing and
\* does not end the run; an entry with an integer date is stored; and
\* ParseSMSBackup returns the entries with integer dates and no error.
BoundedSkipStep(r) ==
    (Len(run'[r].seen) = Len(run[r].seen) + 1) =>
        LET e == Last(run'[r].seen)
            res == ParseSMSBackup(run'[r].seen)
        IN  /\ run'[r].pc = "parsing"
            /\ IF LooksInteger(e.date)
               THEN /\ Len(store') >= 1
                    /\ \E i \in 1..Len(store') :
                          store'[i].date = MillisToSeconds(e.date)
               ELSE store' = store
            /\ ~res.err
            /\ Len(res.Messages) + Len(res.Calls)
                  = Cardinality(GoodDates(run'[r].seen))

BoundedSkip == [][\A r \in Runs : BoundedSkipStep(r)]_vars

BoundedSkipWitness ==
    /\ run["upload"].pc = "done"
    /\ run["upload"].seen = <<smsA, smsBadDate, callC>>
    /\ Len(store) = 2
    /\ progress.Status = "completed"

\* the numeric attributes other than the date that are not integers
MalformedType(e) == ~LooksInteger(e.type)

MalformedDuration(e) == e.tag = "call" /\ ~LooksInteger(e.duration)

EntryAddress(e) == IF e.tag = "call" THEN e.number ELSE e.address

\* row can be the row of entry e: same number (same message id for an
\* mms, whose key may be a group key), same second, call or message
RowFrom(e, row) ==
    /\ IF e.tag = "mms" THEN row.message_id = <<e.m_id>>
       ELSE PlainDigits(row.address) \in
              {PlainDigits(EntryAddress(e)), <<"1">> \o PlainDigits(EntryAddress(e))}
    /\ row.date = MillisToSeconds(e.date)
    /\ (row.record_type = 3) = (e.tag = "call")

Normalized == fn = "normalizePhoneNumber" /\ fnDone

\* the rules of section 4.1, read literally
StatedNormalize(s) ==
    LET d == PlainDigits(s) IN
    IF s = <<>> THEN <<>>
    ELSE IF s[1] = "+" THEN <<"+">> \o d
    ELSE IF Len(d) = 10 THEN <<"+", "1">> \o d
    ELSE IF Len(d) = 11 /\ d[1] = "1" THEN <<"+">> \o d
    ELSE d

ConvertedMMS == fn = "convertMMSEntry" /\ fnDone

\* the distinct normalised participants of an mms entry
Participants(mms) ==
    {normalizePhoneNumber(mms.addrs[i].address) : i \in 1..Len(mms.addrs)} \ {<<>>}

Orders(n) == {p \in [1..n -> 1..n] : \A i, j \in 1..n : p[i] = p[j] => i = j}

Reordered(mms, p) ==
    [mms EXCEPT !.addrs = [i \in 1..Len(mms.addrs) |-> mms.addrs[p[i]]]]

\* C6: with 1 or 2 distinct participants the key is the normalised address
\* attribute; with 3 or more it is the participants, each once, in
\* ascending order, joined by commas; listing the <addr> children in any
\* other order gives the same key.
GroupKeyStable ==
    ConvertedMMS =>
        LET P == Participants(fnIn)
            key == fnOut.rec.Address
            list == fnOut.rec.Addresses
        IN  /\ fnOut.ok
            /\ SeqRange(list) = P
            /\ Len(list) = Cardinality(P)
            /\ \A i \in 1..(Len(list) - 1) : StrLess(list[i], list[i + 1])
            /\ Cardinality(P) \in {1, 2} => key = normalizePhoneNumber(fnIn.address)
            /\ Cardinality(P) >= 3 => key = JoinComma(list)
            /\ \A p \in Orders(Len(fnIn.addrs)) :
                 convertMMSEntry(Reordered(fnIn, p)).rec.Address = key

GroupKeyStableWitness ==
    /\ ConvertedMMS
    /\ Len(fnIn.addrs) = 3
    /\ fnIn.addrs[1].address = AddrShort
    /\ fnIn.addrs[2].address = AddrIntl
    /\ fnIn.addrs[3].address = AddrDashed
    /\ fnOut.rec.Address =
         normalizePhoneNumber(AddrDashed) \o <<",">> \o AddrIntl \o <<",">> \o AddrShort

(***************************************************************************)
(* Claims about the stability gate of the watcher, under SpecWatch.        *)
(***************************************************************************)
Events(kind) == {e \in wlog : e.kind = kind}

InQueue(name, queue) == \E i \in 1..Len(queue) : queue[i] = name

\* in the cycle of an "unstable" record nothing else is recorded for the file
NotProcessedWhenUnstable ==
    \A e \in Events("unstable") :
        \A p \in wlog : (p.cycle = e.cycle /\ p.name = e.name) => p.kind = "unstable"

\* the step that finds the samples differing or missing changes no file,
\* no log, no row and no parse run, and goes on with the listing
UnstableStep ==
    (\E e \in wlog' \ wlog : e.kind = "unstable")
        => /\ fs' = fs
           /\ store' = store
           /\ run' = run
           /\ watcher'.pc = "scan"

\* the listing of the next cycle holds the file again if it is still there
ReExaminedStep ==
    (watcher.pc = "idle" /\ watcher'.pc = "scan")
        => \A e \in Events("unstable") :
              (e.cycle = watcher.cycle /\ fs.ingest[e.name] # 0)
                  => InQueue(e.name, watcher'.queue)

\* a cycle ends only when every listed file has been examined
ListingExhausted == watcher.pc = "idle" => watcher.queue = <<>>

Untouched(id) == fs.files[id].mod = fs.files[id].born

MoveFollowsSuccess ==
    \A m \in Events("move") :
        /\ \E p \in Events("parse") : p.cycle = m.cycle /\ p.name = m.name
        /\ ~\E f \in Events("parseErr") : f.cycle = m.cycle /\ f.name = m.name

\* a moved file is never parsed in a later cycle
NoParseAfterMove ==
    \A m \in Events("move") :
        \A p \in Events("parse") : p.id = m.id => p.cycle <= m.cycle

\* a file is parsed in a second cycle only when its earlier parse failed
ReparseOnlyAfterFailure ==
    \A p \in Events("parse"), q \in Events("parse") :
        (p.id = q.id /\ p.cycle < q.cycle)
            => \E f \in Events("parseErr") : f.cycle = p.cycle /\ f.id = p.id

\* the step that ends a successful parse moves the file that is there
SuccessRelocatesStep ==
    (/\ watcher.pc = "parsing"
     /\ watcher'.pc = "scan"
     /\ run["auto"].pc = "done"
     /\ fs.ingest[watcher.cur] # 0)
        => /\ fs'.ingest[watcher.cur] = 0
           /\ \E c \in fs'.complete :
                 c.name = watcher.cur /\ c.id = fs.ingest[watcher.cur]

\* the step that ends a failed parse leaves the directories as they are
FailureKeepsStep ==
    (/\ watcher.pc = "parsing"
     /\ watcher'.pc = "scan"
     /\ run["auto"].pc = "failed")
        => /\ fs'.ingest = fs.ingest
           /\ fs'.complete = fs.complete

NoNewCycleStep ==
    (svc.started /\ svc.stopped) => watcher'.cycle = watcher.cycle

\* a scan cycle that is running ends only at the end of its listing
RunsToEndStep ==
    (watcher.pc # "idle" /\ watcher'.pc = "idle")
        => (watcher.pc = "scan" /\ watcher.queue = <<>>)

\* C11: once Stop has been called no new scan cycle starts, while a scan
\* cycle that is running when Stop is called runs to its end
CooperativeShutdown == [][NoNewCycleStep /\ RunsToEndStep]_vars

(***************************************************************************)
(* Claims about the outcome of an import, under SpecWatch.                 *)
(***************************************************************************)
Busy == watcher.pc \in {"sleep", "stable", "parsing", "parsed"}

\* the step in which processFile returns after the parser gave an error
FailedImportStep ==
    /\ watcher'.pc = "scan"
    /\ \/ watcher.pc = "parsed"
       \/ watcher.pc = "parsing" /\ run["auto"].pc = "failed"

HasLine(log, line) == \E i \in 1..Len(log.lines) : log.lines[i] = line

\* file and log stay, with the failure written to the log; the complete
\* directory, the store and the rest of the listing are untouched
FailureStaysStep ==
    FailedImportStep
        => /\ fs'.ingest = fs.ingest
           /\ fs'.logs[watcher.cur].present
           /\ HasLine(fs'.logs[watcher.cur], "ERROR: Import failed")
           /\ fs'.complete = fs.complete
           /\ fs'.completeLogs = fs.completeLogs
           /\ watcher'.queue = watcher.queue
           /\ watcher'.cycle = watcher.cycle

\* the file in hand is not listed a second time in the cycle
NoRequeue ==
    /\ \A i, j \in 1..Len(watcher.queue) :
          watcher.queue[i] = watcher.queue[j] => i = j
    /\ Busy => ~InQueue(watcher.cur, watcher.queue)

\* the listing of the next cycle holds the file whose import failed
FailureRetriedStep ==
    (watcher.pc = "idle" /\ watcher'.pc = "scan")
        => \A f \in Events("parseErr") :
              (f.cycle = watcher.cycle /\ fs.ingest[f.name] # 0)
                  => InQueue(f.name, watcher'.queue)

\* C12: when the parser returns an error, the file and its log stay in the
\* ingest directory, nothing is moved to the complete directory, the file
\* is not tried again in the same cycle, and the next cycle lists it again
FailurePath ==
    /\ []NoRequeue
    /\ [][FailureStaysStep /\ FailureRetriedStep]_vars

\* an import failed, file and log stayed, and the next cycle started the
\* parser on the same file
FailurePathWitness ==
    \E f \in Events("parseErr"), p \in Events("parse") :
        /\ p.cycle = f.cycle + 1
        /\ p.name = f.name
        /\ p.id = f.id
        /\ fs.ingest[f.name] = f.id
        /\ fs.complete = {}

\* the step in which processFile moves the file after a successful parse
MovedStep ==
    /\ watcher.pc = "parsing"
    /\ run["auto"].pc = "done"
    /\ watcher'.pc = "scan"
    /\ fs.ingest[watcher.cur] # 0

\* file and log leave the ingest directory and arrive, under one name, in
\* the complete directory
BothRelocatedStep ==
    MovedStep
        => /\ fs'.ingest[watcher.cur] = 0
           /\ ~fs'.logs[watcher.cur].present
           /\ \E c \in fs'.complete \ fs.complete :
                 /\ c.name = watcher.cur
                 /\ c.id = fs.ingest[watcher.cur]
                 /\ \E l \in fs'.completeLogs \ fs.completeLogs :
                       l.name = c.name /\ l.stamp = c.stamp

\* no step overwrites or removes what the complete directory holds
CompleteKeptStep ==
    /\ fs.complete \subseteq fs'.complete
    /\ fs.completeLogs \subseteq fs'.completeLogs

\* a name of the complete directory names one file and one log
CompleteNamesUnique ==
    /\ \A c, d \in fs.complete :
          (c.name = d.name /\ c.stamp = d.stamp) => c = d
    /\ \A c, d \in fs.completeLogs :
          (c.name = d.name /\ c.stamp = d.stamp) => c = d

ErrorHasMessage ==
    (got.taken /\ got.val.exists /\ got.val.Status = "error")
        => got.val.ErrorMessage # ""

IsPrefixOf(s, t) == Len(s) <= Len(t) /\ SubSeq(t, 1, Len(s)) = s

\* C15: a run that ends on a stream error reports the failure and leaves the
\* rows of the entries read so far in the store; an import of the complete
\* document afterwards leaves the store that importing the complete document
\* alone into the original store leaves.
PartialThenComplete ==
    /\ (run["upload"].pc = "failed" /\ run["auto"].pc = "idle")
         => store = IngestAll(<<>>, run["upload"].seen)
    /\ (/\ run["upload"].pc = "failed"
        /\ run["auto"].pc = "done"
        /\ IsPrefixOf(run["upload"].seen, run["auto"].seen))
         => /\ store = IngestAll(<<>>, run["auto"].seen)
            /\ IsPrefixOf(IngestAll(<<>>, run["upload"].seen), store)

PartialThenCompleteWitness ==
    /\ run["upload"].pc = "failed"
    /\ run["auto"].pc = "done"
    /\ Len(run["upload"].seen) >= 1
    /\ Len(run["auto"].seen) > Len(run["upload"].seen)
    /\ IsPrefixOf(run["upload"].seen, run["auto"].seen)
    /\ Len(IngestAll(<<>>, run["upload"].seen)) >= 1
    /\ Len(store) > Len(IngestAll(<<>>, run["upload"].seen))

Skipped(r) == \E i \in 1..Len(run[r].seen) : ~convertEntry(run[r].seen[i]).ok

\* C16: when the stream ends without a fatal error the status is
\* "completed"; processed equals total when no entry was skipped, and
\* processed is smaller than the total seeded from the declared count of the
\* root element when an entry was skipped.
CompletionStep ==
    (run["upload"].pc = "parsing" /\ run'["upload"].pc = "done") =>
        /\ progress'.Status = "completed"
        /\ ~Skipped("upload")
             => progress'.ProcessedMessages = progress'.TotalMessages
        /\ (Skipped("upload") /\ progress.TotalMessages > 0)
             => progress'.ProcessedMessages < progress'.TotalMessages

CompletionState == [][CompletionStep]_vars

\* the entry the step of the upload run has read and converted
AttemptStep(e) ==
    /\ run'["upload"].seen = Append(run["upload"].seen, e)
    /\ convertEntry(e).ok

\* C17: in a parse run every insert attempt advances its counter by exactly
\* one, the message counter for an sms or mms entry and the call counter for
\* a call entry, whether the insert created a row or was ignored as a
\* duplicate; the run goes on without an error.
CountersAdvanceStep ==
    \A e \in Pool :
        AttemptStep(e) =>
            /\ run'["upload"].pc = "parsing"
            /\ Len(store') \in {Len(store), Len(store) + 1}
            /\ IF e.tag = "call"
               THEN /\ progress'.ProcessedCalls = progress.ProcessedCalls + 1
                    /\ progress'.ProcessedMessages = progress.ProcessedMessages
               ELSE /\ progress'.ProcessedMessages = progress.ProcessedMessages + 1
                    /\ progress'.ProcessedCalls = progress.ProcessedCalls

CountersIgnoreDuplicates == [][CountersAdvanceStep]_vars

CountersIgnoreDuplicatesWitness ==
    /\ run["upload"].pc = "parsing"
    /\ Len(run["upload"].seen) = 3
    /\ run["upload"].seen[1] = run["upload"].seen[2]
    /\ run["upload"].seen[1].tag # "call"
    /\ run["upload"].seen[3].tag = "call"
    /\ Len(store) = 2
    /\ progress.ProcessedMessages = 2
    /\ progress.ProcessedCalls = 1

(***************************************************************************)
(* Properties of the media transcoder.                                     *)
(***************************************************************************)
HEICFamily == {MimeHeic, MimeHeifUpper}

VideoFamily == {Mime3gpp, MimeMatroska, MimeAudio3gpp}

Returned(p) == media.req[p].pc = "returned" /\ media.req[p].rec.data # <<>>

ResultIs(p, data, mime) ==
    media.req[p].result = [data |-> data, mime |-> mime, err |-> ""]

ResultIsOriginal(p) == ResultIs(p, media.req[p].rec.data, media.req[p].rec.mime)

VideoResolved(p) ==
    /\ media.req[p].codec \in {"converted", "failed", "unavailable"}
    /\ media.req[p].codec = "converted"
         => ResultIs(p, Mp4Of(media.req[p].rec.data), MimeMp4)
    /\ media.req[p].codec \in {"failed", "unavailable"} => ResultIsOriginal(p)

OtherResolved(p) == media.req[p].codec = "" /\ ResultIsOriginal(p)

\* C18 as stated: resolving non-empty media never returns an error; a
\* failed HEIC conversion and a failed or unavailable video conversion return
\* the original bytes and MIME type, a conversion that succeeded returns the
\* converted bytes as image/jpeg or video/mp4, any other MIME type returns
\* the original.
MediaFallbackAsStated ==
    \A p \in Requests :
        Returned(p) =>
            /\ media.req[p].result.err = ""
            /\ media.req[p].rec.mime \in HEICFamily =>
                 IF media.req[p].codec = "failed"
                 THEN ResultIsOriginal(p)
                 ELSE ResultIs(p, JpegOf(media.req[p].rec.data), MimeJpeg)
            /\ media.req[p].rec.mime \in VideoFamily => VideoResolved(p)
            /\ media.req[p].rec.mime \notin (HEICFamily \cup VideoFamily)
                 => OtherResolved(p)

\* C18 amended: as stated, except that in the build without HEIC support a
\* HEIC or HEIF record resolves to the fixed placeholder JPEG as image/jpeg
\* (to the original when the placeholder cannot be encoded).
MediaFallback ==
    \A p \in Requests :
        Returned(p) =>
            /\ media.req[p].result.err = ""
            /\ media.req[p].rec.mime \in HEICFamily =>
                 /\ media.req[p].codec \in HEICOutcomes(media.heicBuild)
                 /\ media.req[p].codec = "converted"
                      => ResultIs(p, JpegOf(media.req[p].rec.data), MimeJpeg)
                 /\ media.req[p].codec = "placeholder"
                      => ResultIs(p, PlaceholderJPEG, MimeJpeg)
                 /\ media.req[p].codec = "failed" => ResultIsOriginal(p)
            /\ media.req[p].rec.mime \in VideoFamily => VideoResolved(p)
            /\ media.req[p].rec.mime \notin (HEICFamily \cup VideoFamily)
                 => OtherResolved(p)

MediaFallbackWitness ==
    /\ Returned("r1")
    /\ Returned("r2")
    /\ media.req["r1"].rec.mime = MimeHeifUpper
    /\ media.req["r1"].codec = "placeholder"
    /\ media.req["r2"].rec.mime = Mime3gpp
    /\ media.req["r2"].codec = "converted"

\* no temporary file of a request that is not converting
NoLeftovers ==
    \A n \in TmpNames :
        media.tmp[n].present =>
            media.req[media.tmp[n].owner].pc \notin {"idle", "returned"}

\* the step on which the conversion of p returns
ConversionReturns(p) ==
    /\ media.req[p].pc \in {"createInput", "createOutput", "write", "ffmpeg", "read"}
    /\ media'.req[p].pc = "returned"

FilesGoneStep ==
    \A p \in Requests :
        ConversionReturns(p) =>
            \A n \in TmpNames :
                n \in {media.req[p].in, media.req[p].out} => ~media'.tmp[n].present

OnlyOwnFilesStep ==
    \A p \in Requests :
        media'.req[p] # media.req[p] =>
            \A n \in TmpNames :
                (media.tmp[n].present /\ media.tmp[n].owner # p)
                    => media'.tmp[n] = media.tmp[n]

\* C19: when convertVideoToMP4 returns, by any path, neither its temporary
\* input file nor its temporary output file exists any more, and with
\* conversions running at the same time each one removes only its own files.
TempFileCleanup == []NoLeftovers /\ [][FilesGoneStep /\ OnlyOwnFilesStep]_vars

TempFileCleanupWitness ==
    /\ media.req["r1"].pc = "returned"
    /\ media.req["r1"].codec = "converted"
    /\ media.req["r1"].in # 0
    /\ media.req["r1"].out # 0
    /\ media.req["r2"].pc = "read"
    /\ Cardinality({n \in TmpNames : media.tmp[n].present}) = 2
    /\ \A n \in TmpNames : media.tmp[n].present => media.tmp[n].owner = "r2"

(***************************************************************************)
(* Properties of the progress locks.                                       *)
(***************************************************************************)
Accessing(t) == lk.th[t].phase = "access"

\* a thread about to read or write a field holds both locks, the inner one
\* exclusively when it writes; setting the pointer needs the outer lock
\* exclusively
LockedAccess ==
    \A t \in Threads :
        Accessing(t) =>
            IF CurrentOp(t).name = "Begin" THEN lk.outer.w = t
            ELSE /\ Holds(lk.outer, t)
                 /\ IF t \in Writers THEN lk.inner.w = t ELSE Holds(lk.inner, t)

\* no write happens at the same time as another access
NoRace ==
    \A t, u \in Threads :
        (t # u /\ Accessing(t) /\ Accessing(u)) => (t \notin Writers /\ u \notin Writers)

\* what the caller of GetUploadProgress sees through the pointer it got
SeenBy(ret, shared) == IF ret.ref = "shared" THEN shared ELSE ret.val

\* the struct returned equals the progress as it stood at one moment of
\* the call, between two writer operations
OneInstantStep ==
    (lk.th["poll"].phase = "unlock" /\ lk'.th["poll"].phase = "idle") =>
        /\ lk'.ret.taken
        /\ lk'.ret.val \in {GetUploadProgress(v) : v \in lk.instants}

\* later writes do not show in a struct already returned
PrivateCopyStep ==
    (lk.ret.taken /\ lk'.ret = lk.ret) =>
        SeenBy(lk.ret, progress') = SeenBy(lk.ret, progress)

\* C20: every read and write of a progress field happens with the progress
\* locks held; GetUploadProgress returns a copy of its own whose fields all
\* come from one instant and do not change when the parser writes later.
ProgressGuarded ==
    [](LockedAccess /\ NoRace) /\ [][OneInstantStep /\ PrivateCopyStep]_vars

ProgressGuardedWitness ==
    /\ lk.ret.taken
    /\ lk.ret.ref = "copy"
    /\ lk.ret.val.Status = "parsing"
    /\ lk.ret.val.TotalMessages = 2
    /\ progress.Status = "error"
    /\ lk.th["poll"].phase = "lock"
    /\ lk.th["poll"].k = 0
    /\ \E t \in Writers :
         /\ Accessing(t)
         /\ CurrentOp(t).name = "SetUploadProgress"
         /\ lk.th[t].i = 1

\* a parse run, or the upload that wraps it, has started and not returned
InProgress(r) ==
    \/ run[r].pc = "parsing"
    \/ r = "upload" /\ run[r].pc \in {"failed", "reporting"}

\* C21: a poll made while no upload is in progress reports "no_upload": the
\* progress of a run is cleared when the run ends, also after an earlier run
\* has finished.
NoUploadStep ==
    (got' # got /\ \A r \in Runs : ~InProgress(r))
        => HandleProgress(got'.val) = "no_upload"

ProgressCleared == [][NoUploadStep]_vars

(***************************************************************************)
(* Properties of the MMS converter.                                        *)
(***************************************************************************)
\* a part that can be the attachment: a contact card with payload, or a
\* part that is not markup, has a content type that is not text, and payload
Qualifies(part) ==
    /\ ~isSMILContentType(part.ct)
    /\ part.data # ""
    /\ isVCardContentType(part.ct) \/ (part.ct # "" /\ ~isTextContentType(part.ct))

\* the index of the first part that satisfies Test, 0 when there is none
FirstPart(parts, Test(_)) ==
    IF \E i \in 1..Len(parts) : Test(parts[i])
    THEN CHOOSE i \in 1..Len(parts) :
            Test(parts[i]) /\ \A j \in 1..(i - 1) : ~Test(parts[j])
    ELSE 0

AttachmentIs(rec, parts, q) ==
    IF q = 0 THEN rec.MediaType = "" /\ rec.MediaData = ""
    ELSE /\ rec.MediaType = parts[q].ct
         /\ rec.MediaData = Base64Decode(parts[q].data).bytes

NoMarkupInBody(rec, parts) ==
    \A i \in 1..Len(parts) :
        isSMILContentType(parts[i].ct) =>
            \A w \in SeqRange(parts[i].text) : w \notin SeqRange(rec.Body)

\* C22 as stated: the attachment of the converted record is the first part
\* in document order that qualifies; later qualifying parts are ignored and
\* SMIL parts give neither attachment nor body text.
FirstAttachmentAsStated ==
    ConvertedMMS =>
        /\ AttachmentIs(fnOut.rec, fnIn.parts, FirstPart(fnIn.parts, Qualifies))
        /\ NoMarkupInBody(fnOut.rec, fnIn.parts)

Decodes(part) == Qualifies(part) /\ Base64Decode(part.data).ok

\* C22 amended: the attachment is the first qualifying part whose payload
\* is valid base64; a qualifying part that does not decode is passed over.
FirstAttachment ==
    ConvertedMMS =>
        /\ AttachmentIs(fnOut.rec, fnIn.parts, FirstPart(fnIn.parts, Decodes))
        /\ NoMarkupInBody(fnOut.rec, fnIn.parts)

FirstAttachmentWitness ==
    /\ ConvertedMMS
    /\ fnIn.parts = <<SmilDataPart, HeicPart, JpegPart>>
    /\ fnOut.rec.MediaType = "image/heic"
    /\ fnOut.rec.MediaData = "yo"

\* the <addr> children whose address normalises to something
Named(mms) ==
    {i \in 1..Len(mms.addrs) : normalizePhoneNumber(mms.addrs[i].address) # <<>>}

\* the ones of them that carry the "from" marker
Froms(mms) == {i \in Named(mms) : AtoiOrZero(mms.addrs[i].type) = 137}

MaxOf(S) == CHOOSE i \in S : \A j \in S : j <= i

MinOf(S) == CHOOSE i \in S : \A j \in S : i <= j

\* C23: the sender of a received MMS (msg_box = 1) is the normalised address
\* that carries the "from" marker 137 when there is one (the last one in
\* document order when several do), otherwise the only participant or, with
\* several, the first participant in document order, and empty when the
\* entry names no participant; the sender of any other MMS is empty.
SenderInference ==
    ConvertedMMS =>
        fnOut.rec.Sender =
            IF AtoiOrZero(fnIn.type) # 1 THEN <<>>
            ELSE IF Froms(fnIn) # {}
            THEN normalizePhoneNumber(fnIn.addrs[MaxOf(Froms(fnIn))].address)
            ELSE IF Named(fnIn) # {}
            THEN normalizePhoneNumber(fnIn.addrs[MinOf(Named(fnIn))].address)
            ELSE <<>>

SenderInferenceWitness ==
    /\ ConvertedMMS
    /\ AtoiOrZero(fnIn.type) = 1
    /\ Len(fnIn.addrs) = 3
    /\ fnIn.addrs[1] = MMSAddr(AddrShort, <<"1", "5", "1">>)
    /\ fnIn.addrs[2] = MMSAddr(AddrIntl, <<"1", "3", "7">>)
    /\ fnIn.addrs[3] = MMSAddr(AddrDashed, <<"1", "5", "1">>)
    /\ fnOut.rec.Sender = AddrIntl

(***************************************************************************)
(* Properties of the stored records.                                       *)
(***************************************************************************)
\* C24: every record converted from an sms entry has an empty list of
\* participant addresses, in the record and in the row stored for it.
SMSAddressesEmpty ==
    \A i \in 1..Len(run["upload"].seen) :
        LET e == run["upload"].seen[i] IN
        (e.tag = "sms" /\ convertEntry(e).ok) =>
            /\ convertEntry(e).rec.Addresses = <<>>
            /\ \A j \in 1..Len(store) :
                 UniqueKey(store[j]) = UniqueKey(RowOf(convertEntry(e).rec))
                    => store[j].addresses = JoinComma(<<>>)

(***************************************************************************)
(* Properties of the import log.                                           *)
(***************************************************************************)
\* the log of an attempt that came to parsing and is over, still in ingest
LeftInIngest(name) ==
    /\ fs.logs[name].present
    /\ HasLine(fs.logs[name], "Parsing XML backup file")
    /\ ~(watcher.pc \in {"parsing", "parsed"} /\ watcher.cur = name)

FailureLogged ==
    \A name \in FileNames :
        LeftInIngest(name) =>
            /\ fs.logs[name].lines[1] = "Starting import"
            /\ \/ HasLine(fs.logs[name], "ERROR: Import failed")
               \/ HasLine(fs.logs[name], "ERROR: Failed to move file")

SuccessLogged ==
    \A c \in fs.completeLogs :
        c # EarlierLog =>
            /\ c.lines[1] = "Starting import"
            /\ HasLine(c, "Total processed")
            /\ HasLine(c, "Import completed successfully")

\* C25: every auto-import attempt leaves a log, created fresh for the
\* attempt, with what was attempted, the counts and the outcome: the log
\* moved to the complete directory holds the line that the import succeeded,
\* the log left in ingest after a failure holds the failure line.
ImportLogComplete == FailureLogged /\ SuccessLogged

\* record kinds: 1 SMS, 2 MMS, 3 call
KindOfTag(tag) == CASE tag = "sms" -> 1 [] tag = "mms" -> 2 [] tag = "call" -> 3

\* C26: every entry that was ingested has a row of the record kind of its
\* element: SMS for <sms>, MMS for <mms> whatever its ct_t attribute, CALL
\* for <call>; an MMS is never taken for a duplicate of an SMS.
RecordKindFollowsTag ==
    \A i \in 1..Len(run["upload"].seen) :
        LET e == run["upload"].seen[i] IN
        convertEntry(e).ok =>
            \E j \in 1..Len(store) :
                /\ store[j].record_type = KindOfTag(e.tag)
                /\ store[j].address = convertEntry(e).rec.Address
                /\ store[j].date = convertEntry(e).rec.Date

\* a run starts and replaces the progress
Replaced == \E r \in Runs : run[r].pc = "idle" /\ run'[r].pc = "parsing"

CompletedIsQuiet ==
    progress.Status = "completed" => \A r \in Runs : run[r].pc # "parsing"

CompletedIsFinalStep ==
    (progress.Status = "completed" /\ ~Replaced) =>
        /\ progress'.ProcessedMessages = progress.ProcessedMessages
        /\ progress'.ProcessedCalls = progress.ProcessedCalls

\* C27: while the progress says "completed" no parse run is still
\* inserting records, and its processed counters stay as they are until a
\* new run replaces the progress, also when two runs overlap.
TerminalStatusTruthful == []CompletedIsQuiet /\ [][CompletedIsFinalStep]_vars

SpecDB == Init /\ [][NextDB]_vars

HandlesOf(u) == {h \in 1..Len(dbs.opened) : dbs.opened[h] = u}

\* C28: for each user at most one store handle is ever opened, every
\* caller of GetUserDB for that user gets that same handle, also when the
\* first two calls run at the same time, and a handle of one user is never
\* handed out for another.
OneHandlePerUser ==
    /\ \A u \in Users : Cardinality(HandlesOf(u)) <= 1
    /\ \A x, y \in dbs.handed : x.user = y.user => x.db = y.db
    /\ \A x \in dbs.handed : x.db \in HandlesOf(x.user)

\* handles stay with their user
HandleOfOwnUser == \A x \in dbs.handed : x.db \in HandlesOf(x.user)

\* callers of one user disagree on the handle
SameHandleForAll == \A x, y \in dbs.handed : x.user = y.user => x.db = y.db

\* every entry the auto-import run read and converted has its row
AllStored ==
    \A i \in 1..Len(run["auto"].seen) :
        LET conv == convertEntry(run["auto"].seen[i]) IN
        conv.ok => Conflicts(store, RowOf(conv.rec))

CompletedStep == run["auto"].pc = "parsing" /\ run'["auto"].pc = "done"

\* C29: the watcher moves a backup file to the complete directory, and the
\* parser reports "completed", only if every entry of the file that
\* converted is in the store; after a failed insert the file stays.
NoSilentLoss ==
    [][(MovedStep => AllStored) /\ (CompletedStep => AllStored)]_vars

\* empty, or an optional leading "+" followed by one or more digits
KeyShape(s) ==
    \/ s = <<>>
    \/ AllDigits(s)
    \/ Head(s) = "+" /\ AllDigits(Tail(s))

\* C30: normalizePhoneNumber gives the same output for the same input,
\* normalising its output again changes nothing, and the output is empty
\* or an optional "+" followed by digits.
NormalizeIdempotent ==
    Normalized =>
        /\ fnOut = normalizePhoneNumber(fnIn)
        /\ normalizePhoneNumber(fnOut) = fnOut
        /\ KeyShape(fnOut)

\* a ten-digit number written with punctuation got its "+1"
NormalizeIdempotentWitness ==
    /\ Normalized
    /\ ~HasPlusPrefix(fnIn)
    /\ Len(KeepDigits(fnIn)) = 10
    /\ fnIn # KeepDigits(fnIn)
    /\ Len(fnOut) = 12

=============================================================================
